---- MODULE Spec2Model ----
(***************************************************************************)
(* CEASIOMpy: wing topology reconstruction (bwbwingsanalysis.py) and       *)
(* lumped-mass inertia accumulation (lumpedmassesinertia.py).              *)
(*                                                                         *)
(* Arrays are 1-based here where the Python source is 0-based:             *)
(*   seg_sec[j-1, i-1, k]  is written  seg_sec[j][i][k+1].                 *)
(* Floating point coordinates, lengths and masses are modelled on an       *)
(* integer grid.                                                           *)
(***************************************************************************)
EXTENDS Integers, Sequences, FiniteSets, TLC

\* ------------------------------------------------------------------ bounds
MaxWings == 2
MaxSeg == 3
MaxCoord == 2
MaxEngines == 2
MaxMass == 1
MaxLen == 3
MaxSpacing == 2
MaxSubdC == 2
MaxInertiaSeg == 2
MaxGeomSeg == 3

\* ------------------------------------------------------------- generic
Max(a, b) == IF a >= b THEN a ELSE b

RECURSIVE SeqMax(_)
SeqMax(s) == IF Len(s) = 0 THEN 0 ELSE Max(Head(s), SeqMax(Tail(s)))

InSeq(x, s) == \E k \in 1..Len(s) : s[k] = x

Perms(n) == {f \in [1..n -> 1..n] : \A a1, a2 \in 1..n : f[a1] = f[a2] => a1 = a2}

\* =========================================================================
\* check_segment_connection                       (bwbwingsanalysis.py 41-127)
\* =========================================================================
VARIABLES
    call,               \* the function being run
    pc,                 \* position inside it
    w_nb,               \* awg.w_nb
    wing_seg_nb,        \* awg.wing_seg_nb
    wing_plt_area,      \* awg.wing_plt_area[i-1] of the wing being processed
    wing_plt_area_xz,   \* wing_plt_area_xz[i-1]
    wing_plt_area_yz,   \* wing_plt_area_yz[i-1]
    secPoint,           \* oracle: leading-edge chord point of each section of wing i
    i,                  \* wing loop index (1-based as in the source)
    j,                  \* segment loop index of the chaining loop
    nbmax,
    seg_sec,
    seg_sec_reordered,
    sec_index,
    start_index,
    sec_nb

topoVars == <<call, pc, w_nb, wing_seg_nb, wing_plt_area, wing_plt_area_xz,
              wing_plt_area_yz, secPoint, i, j, nbmax, seg_sec,
              seg_sec_reordered, sec_index, start_index, sec_nb>>

\* lumpedmassesinertia.py: arguments, loop variables, accumulators, outputs.
VARIABLES
    SPACING,            \* maximum distance between nodes
    subd_c,             \* chordwise subdivisions of wing_inertia
    fuse,               \* number of fuselages (column offset into mass_seg_i)
    f_nb,               \* afg.f_nb
    subd,               \* subd_l, SUBD_C0, subd_r of the segment last sampled
    center_of_gravity,
    wing_sym,           \* awg.wing_sym
    w_seg_sec,          \* awg.w_seg_sec / afg.f_seg_sec
    seg_length,         \* awg.wing_seg_length / afg.fuse_seg_length, entries read so far
    mass_seg_i,         \* entries read so far, and those of the mirrored columns
    chordFlip,          \* oracle: the wing's chord parameter runs against x
    w,                  \* component loop index (w, f or e in the source)
    row,                \* position in the column of w_seg_sec being iterated
    a,                  \* running offset of the symmetric wings
    DEN,
    NE,                 \* EngineData.NE
    en_mass,            \* EngineData.en_mass
    EN_PLACEMENT,       \* EngineData.EN_PLACEMENT, rows read so far
    Ixx, Iyy, Izz, Ixy, Iyz, Ixz,
    cloud,              \* the returned nodes, <<x, y, z>> each
    cloudTag            \* history: for each node its component, segment, mass
                        \* and whether it is a mirrored node

inertiaVars == <<SPACING, subd_c, fuse, f_nb, subd, center_of_gravity, wing_sym, w_seg_sec,
                 seg_length, mass_seg_i, chordFlip, w, row, a, DEN,
                 NE, en_mass, EN_PLACEMENT,
                 Ixx, Iyy, Izz, Ixy, Iyz, Ixz, cloud, cloudTag>>

\* Section ids the oracle may report for a wing of at most MaxSeg segments.
Sections == 1..(MaxSeg + 1)
Coords == 0..MaxCoord
NoPoint == <<0, 0, 0>>
ZeroRow == <<0, 0, 0>>

\* np.zeros((rows, cols, 3))
Zeros3(rows, cols) == [r \in 1..rows |-> [c \in 1..cols |-> ZeroRow]]
\* np.zeros((rows, cols))
Zeros2(rows, cols) == [r \in 1..rows |-> [c \in 1..cols |-> 0]]

\* tigl.wingGetInnerSectionAndElementIndex / wingGetOuterSectionAndElementIndex:
\* a segment joins two distinct sections of its wing.
SectionPairs == {p \in Sections \X Sections : p[1] # p[2]}

\* tigl.wingGetChordPoint(i, seg, eta, 0.0): the leading-edge point of the inner
\* (eta = 0) or outer (eta = 1) section of segment seg, as stored in seg_sec.
wingGetChordPoint(ss, pts, wing, seg, eta) ==
    pts[IF eta = 0 THEN ss[seg][wing][1] ELSE ss[seg][wing][2]]

\* The sections a wing's segments refer to.
UsedSections(pairs) ==
    {pairs[k][1] : k \in DOMAIN pairs} \cup {pairs[k][2] : k \in DOMAIN pairs}

\* The leading-edge points of a wing's sections: y is drawn freely for every
\* section in use, z runs against y (a section further out along y lies lower),
\* so that ranking along y and ranking along z differ.
SectionPoints(used) ==
    {[s \in Sections |-> IF s \in used THEN <<0, ys[s], MaxCoord - ys[s]>>
                                        ELSE NoPoint] :
        ys \in {f \in [Sections -> Coords] : \A s \in Sections \ used : f[s] = 0}}

\* The reference areas (xy, xz, yz) of a wing: xy strictly the largest, xy tied
\* with xz, xy tied with yz.
ReferenceAreas == {<<2, 1, 1>>, <<2, 2, 1>>, <<2, 1, 2>>}

RECURSIVE SeqSum(_)
SeqSum(s) == IF Len(s) = 0 THEN 0 ELSE Head(s) + SeqSum(Tail(s))

\* lines 99-100: the wing is ranked along y when its xy area is the largest.
RankAlongYOnTies(axy, axz, ayz) == axy >= axz /\ axy >= ayz
RankAlongY(axy, axz, ayz) == axy > axz /\ axy > ayz

\* lines 101 / 106: the coordinate the root search compares.
RankCoord(p, horiz) == IF horiz THEN p[2] ELSE p[3]

\* lines 94-109: scan state <<slp, root row, appended start indices>>.
RECURSIVE RootScan(_, _, _, _, _, _, _)
RootScan(ss, pts, wing, n, horiz, jj, acc) ==
    IF jj > n THEN acc
    ELSE LET p == wingGetChordPoint(ss, pts, wing, jj, 1)
         IN  IF RankCoord(p, horiz) < RankCoord(acc[1], horiz)
             THEN RootScan(ss, pts, wing, n, horiz, jj + 1,
                           <<p, ss[jj][wing], Append(acc[3], jj)>>)
             ELSE RootScan(ss, pts, wing, n, horiz, jj + 1, acc)

\* line 112: np.where(seg_sec[:, i-1, 0] == end_sec)[0]
StartNext(ss, wing, end_sec) ==
    {k \in DOMAIN ss : ss[k][wing][1] = end_sec}

\* line 113: numpy assigns seg_sec[start_next[0], i-1, :] of shape (m, 3) to a
\* slot of shape (3,) only when m = 1; any other m raises ValueError.
BroadcastsFirstMatch(m) == Cardinality(m) >= 1
Broadcasts(m) == Cardinality(m) = 1

\* lines 114-119: the section list of wing `wing`.
RECURSIVE CollectStarts(_, _, _, _, _)
CollectStarts(ssr, wing, n, jj, acc) ==
    IF jj > n THEN acc
    ELSE CollectStarts(ssr, wing, n, jj + 1,
            IF InSeq(ssr[jj][wing][1], acc) THEN acc
            ELSE Append(acc, ssr[jj][wing][1]))

WingSecIndex(ssr, wing, n) ==
    LET starts == CollectStarts(ssr, wing, n, 2, <<ssr[1][1][1]>>)
    IN  IF InSeq(ssr[n][wing][2], starts) THEN starts
        ELSE Append(starts, ssr[n][wing][2])

\* line 123: sec_index.resize(nbmax, awg.w_nb) keeps the rows it has and adds
\* zero rows.
Resize(si, rows, cols) ==
    [r \in 1..rows |-> IF r \in DOMAIN si THEN si[r] ELSE [c \in 1..cols |-> 0]]

\* State of geom_eval (bwbwingsanalysis.py 174-411).
VARIABLES
    wing_nb,                    \* awg.wing_nb: the wings, mirrored ones counted
    wing_center_section_point,  \* [row][wing] -> point
    wing_center_seg_point,      \* awg.wing_center_seg_point: [segment][column]
    c_next,                     \* c: the next column was filled by mirroring
    is_horiz,                   \* awg.is_horiz
    wing_span,                  \* awg.wing_span
    main_wing_index,            \* awg.main_wing_index, 0 while unset
    main_wing_surface,          \* awg.main_wing_surface
    tail_wings_surface,         \* awg.tail_wings_surface
    total_wings_surface,        \* awg.total_wings_surface
    tixi_handle,                \* the tixi/tigl handle of the running call
    geom_queries                \* oracle queries geom_eval has made so far

geomResults == <<is_horiz, wing_span, main_wing_index, main_wing_surface,
                 tail_wings_surface, total_wings_surface>>

geomVars == <<wing_nb, wing_center_section_point, wing_center_seg_point, c_next,
              geomResults, tixi_handle, geom_queries>>

\* State of moduleinterfaces.py: a CPACSInOut object and the outcome of the
\* last call made on it.
VARIABLES
    inputs,             \* CPACSInOut.inputs
    outputs,            \* CPACSInOut.outputs
    io_call,            \* the last call: its name and arguments
    io_error,           \* the exception the last call raised, "none" if none
    missing_nodes       \* the paths listed in the message of the last check

ifaceVars == <<inputs, outputs, io_call, io_error, missing_nodes>>

\* State of settingsgui.py: the SettingGUI window and its AeroMaps tab.
VARIABLES
    submodule_list,     \* SettingGUI.submodule_list
    module_specs,       \* what get_specs_for_module finds for each module
    tab_list,           \* SettingGUI.tab_list: the module of each AutoTab
    notebook,           \* SettingGUI.tabs: the texts of the notebook's tabs
    var_dict,           \* the var_dict of each AutoTab of tab_list
    written,            \* the variables _save_quit has written, in order
    saved,              \* save_cpacs was called
    gui_quit,           \* quit was called
    gui_error,          \* the exception the last handler raised
    aero_list,          \* AeroMapTab.list
    listBox,            \* the items of AeroMapTab.listBox
    cpacs_aeromaps,     \* the aeromaps of the CPACS object, in file order
    aero_entries        \* the texts of the Name, Altitude, Mach, AoS and AoA entries

guiVars == <<submodule_list, module_specs, tab_list, notebook, var_dict, written,
             saved, gui_quit, gui_error, aero_list, listBox, cpacs_aeromaps,
             aero_entries>>

otherVars == <<ifaceVars, guiVars>>

IfaceIdle ==
    /\ inputs = <<>> /\ outputs = <<>>
    /\ io_call = <<>> /\ io_error = "none" /\ missing_nodes = <<>>

GuiIdle ==
    /\ submodule_list = <<>> /\ module_specs = <<>>
    /\ tab_list = <<>> /\ notebook = <<>> /\ var_dict = <<>>
    /\ written = <<>> /\ saved = FALSE /\ gui_quit = FALSE
    /\ gui_error = "none"
    /\ aero_list = <<>> /\ listBox = <<>> /\ cpacs_aeromaps = <<>>
    /\ aero_entries = <<>>

\* The variables of the other files while a geometry or inertia function runs.
OtherIdle == IfaceIdle /\ GuiIdle

GeomIdle ==
    /\ wing_nb = 0
    /\ wing_center_section_point = <<>>
    /\ wing_center_seg_point = <<>>
    /\ c_next = FALSE
    /\ is_horiz = <<>> /\ wing_span = <<>> /\ main_wing_index = 0
    /\ main_wing_surface = 0 /\ tail_wings_surface = <<>>
    /\ total_wings_surface = 0
    /\ geom_queries = 0

\* The variables of lumpedmassesinertia.py while another function runs.
InertiaIdle ==
    /\ SPACING = 0 /\ subd_c = 0 /\ fuse = 0 /\ f_nb = 0 /\ subd = <<>>
    /\ center_of_gravity = <<0, 0, 0>>
    /\ wing_sym = <<>> /\ w_seg_sec = <<>>
    /\ seg_length = <<>> /\ mass_seg_i = <<>>
    /\ chordFlip = FALSE
    /\ w = 0 /\ row = 0 /\ a = 0 /\ DEN = 0
    /\ NE = 0 /\ en_mass = 0 /\ EN_PLACEMENT = <<>>
    /\ Ixx = 0 /\ Iyy = 0 /\ Izz = 0 /\ Ixy = 0 /\ Iyz = 0 /\ Ixz = 0
    /\ cloud = <<>> /\ cloudTag = <<>>

TopoInit ==
    /\ call = "check_segment_connection"
    /\ pc = "read"
    /\ w_nb \in 1..MaxWings
    /\ wing_seg_nb \in {f \in [1..w_nb -> 1..MaxSeg] : SeqSum(f) <= MaxSeg}
    /\ nbmax = SeqMax(wing_seg_nb)
    /\ seg_sec = Zeros3(nbmax, w_nb)
    /\ seg_sec_reordered = Zeros3(nbmax, w_nb)
    /\ sec_index = Zeros2(nbmax, w_nb)
    /\ start_index = <<>>
    /\ sec_nb = <<>>
    /\ i = 1
    /\ j = 0
    /\ wing_plt_area = 0
    /\ wing_plt_area_xz = 0
    /\ wing_plt_area_yz = 0
    /\ secPoint = [s \in Sections |-> NoPoint]
    /\ InertiaIdle /\ GeomIdle /\ tixi_handle = "open" /\ OtherIdle

\* lines 86-93: query the section pair of every segment of wing i.  The
\* oracle's answers about wing i (its section pairs, chord points and reference
\* areas) are drawn here, when the wing is first queried.
ReadSegments ==
    /\ call = "check_segment_connection"
    /\ pc = "read"
    /\ \E pairs \in [1..wing_seg_nb[i] -> SectionPairs] :
        \E pts \in SectionPoints(UsedSections(pairs)), ar \in ReferenceAreas :
          /\ seg_sec' = [r \in DOMAIN seg_sec |->
                          IF r <= wing_seg_nb[i]
                          THEN [seg_sec[r] EXCEPT
                                   ![i] = <<pairs[r][1], pairs[r][2], r>>]
                          ELSE seg_sec[r]]
          /\ secPoint' = pts
          /\ wing_plt_area' = ar[1]
          /\ wing_plt_area_xz' = ar[2]
          /\ wing_plt_area_yz' = ar[3]
    /\ pc' = "root"
    /\ UNCHANGED <<call, w_nb, wing_seg_nb, i, j, nbmax, seg_sec_reordered,
                   sec_index, start_index, sec_nb>>
    /\ UNCHANGED <<inertiaVars, geomVars>>
    /\ UNCHANGED otherVars

\* lines 94-109: choose the root segment of wing i.
SelectRoot ==
    /\ call = "check_segment_connection"
    /\ pc = "root"
    /\ LET scan == RootScan(seg_sec, secPoint, i, wing_seg_nb[i],
                            RankAlongY(wing_plt_area, wing_plt_area_xz,
                                       wing_plt_area_yz), 2,
                            <<wingGetChordPoint(seg_sec, secPoint, i, 1, 0),
                              seg_sec[1][i], <<1>>>>)
       IN  /\ seg_sec_reordered' =
                 [seg_sec_reordered EXCEPT ![1][i] = scan[2]]
           /\ start_index' = start_index \o scan[3]
    /\ j' = 2
    /\ pc' = "chain"
    /\ UNCHANGED <<call, w_nb, wing_seg_nb, wing_plt_area, wing_plt_area_xz,
                   wing_plt_area_yz, secPoint, i, nbmax, seg_sec, sec_index,
                   sec_nb>>
    /\ UNCHANGED <<inertiaVars, geomVars>>
    /\ UNCHANGED otherVars

\* lines 110-113, one iteration: place the segment that starts where the
\* segment at position j-1 ends.
ChainStep ==
    /\ call = "check_segment_connection"
    /\ pc = "chain"
    /\ j <= wing_seg_nb[i]
    /\ LET end_sec == seg_sec_reordered[j - 1][i][2]
           start_next == StartNext(seg_sec, i, end_sec)
       IN  IF Broadcasts(start_next)
           THEN /\ seg_sec_reordered' =
                      [seg_sec_reordered EXCEPT
                          ![j][i] = seg_sec[CHOOSE k \in start_next :
                                              \A k2 \in start_next : k <= k2][i]]
                /\ j' = j + 1
                /\ pc' = "chain"
           ELSE /\ pc' = "ValueError"
                /\ UNCHANGED <<seg_sec_reordered, j>>
    /\ UNCHANGED <<call, w_nb, wing_seg_nb, wing_plt_area, wing_plt_area_xz,
                   wing_plt_area_yz, secPoint, i, nbmax, seg_sec, sec_index,
                   start_index, sec_nb>>
    /\ UNCHANGED <<inertiaVars, geomVars>>
    /\ UNCHANGED otherVars

\* lines 114-125: collect the section list of wing i, then go to the next wing
\* or return (line 127).
CollectSections ==
    /\ call = "check_segment_connection"
    /\ pc = "chain"
    /\ j > wing_seg_nb[i]
    /\ LET wing_sec_index == WingSecIndex(seg_sec_reordered, i, wing_seg_nb[i])
           nb == Len(wing_sec_index)
           nbmax2 == IF nb > nbmax THEN nb ELSE nbmax
           resized == Resize(sec_index, nbmax2, w_nb)
       IN  /\ nbmax' = nbmax2
           /\ sec_index' = [r \in 1..nbmax2 |->
                              IF r <= nb
                              THEN [resized[r] EXCEPT ![i] = wing_sec_index[r]]
                              ELSE resized[r]]
           /\ sec_nb' = Append(sec_nb, nb)
    /\ IF i < w_nb
       THEN /\ i' = i + 1
            /\ pc' = "read"
       ELSE /\ i' = i
            /\ pc' = "return"
    /\ UNCHANGED <<call, w_nb, wing_seg_nb, wing_plt_area, wing_plt_area_xz,
                   wing_plt_area_yz, secPoint, j, seg_sec, seg_sec_reordered,
                   start_index>>
    /\ UNCHANGED <<inertiaVars, geomVars>>
    /\ UNCHANGED otherVars

TopoNext ==
    \/ ReadSegments
    \/ SelectRoot
    \/ ChainStep
    \/ CollectSections

vars == <<topoVars, inertiaVars, geomVars, otherVars>>

SpecTopology == TopoInit /\ [][TopoNext]_vars

\* =========================================================================
\* lumpedmassesinertia.py
\* =========================================================================
\* The variables of check_segment_connection while another function runs.
TopoIdle ==
    /\ wing_plt_area = 0 /\ wing_plt_area_xz = 0 /\ wing_plt_area_yz = 0
    /\ secPoint = <<>>
    /\ i = 0 /\ j = 0 /\ nbmax = 0
    /\ seg_sec = <<>> /\ seg_sec_reordered = <<>> /\ sec_index = <<>>
    /\ start_index = <<>> /\ sec_nb = <<>>

topoState == <<wing_plt_area, wing_plt_area_xz, wing_plt_area_yz, secPoint, i, j,
               nbmax, seg_sec, seg_sec_reordered, sec_index, start_index, sec_nb>>

\* The centres of gravity tried: one in each coordinate plane (and off the two
\* others), and one off all three.
CoGs == {<<1, -1, 0>>, <<1, 0, 2>>, <<0, -1, 2>>, <<1, -1, 2>>}

\* offsets of a node from the centre of gravity (lines 125-127, 233-235,
\* 262-264, 302-304)
Offset(p, cog) == <<p[1] - cog[1], p[2] - cog[2], p[3] - cog[3]>>

Add6(t, u) == <<t[1] + u[1], t[2] + u[2], t[3] + u[3],
                t[4] + u[4], t[5] + u[5], t[6] + u[6]>>

Tensor == <<Ixx, Iyy, Izz, Ixy, Iyz, Ixz>>

SetTensor(t) ==
    /\ Ixx' = t[1] /\ Iyy' = t[2] /\ Izz' = t[3]
    /\ Ixy' = t[4] /\ Iyz' = t[5] /\ Ixz' = t[6]

\* -------------------------------------------------------------------------
\* engine_inertia                              (lumpedmassesinertia.py 279-312)
\* -------------------------------------------------------------------------
EngineCoords == {-1, 0, MaxCoord}
EnginePlacements == EngineCoords \X EngineCoords \X EngineCoords

\* lines 305-310: what one engine adds to <<Ixx, Iyy, Izz, Ixy, Iyz, Ixz>>.
EngineLumpedInertiaPlanar(m, c) ==
    <<m * (c[2] * c[2] + c[3] * c[3]),
      m * (c[1] * c[1] + c[3] * c[3]),
      m * (c[1] * c[1]),
      m * c[1] * c[2],
      m * c[2] * c[3],
      m * c[1] * c[1]>>
EngineLumpedInertia(m, c) ==
    <<m * (c[2] * c[2] + c[3] * c[3]),
      m * (c[1] * c[1] + c[3] * c[3]),
      m * (c[1] * c[1] + c[2] * c[2]),
      m * c[1] * c[2],
      m * c[2] * c[3],
      m * c[1] * c[1]>>

EngineInit ==
    /\ call = "engine_inertia"
    /\ pc = "engine"
    /\ w_nb = 0 /\ wing_seg_nb = <<>>
    /\ TopoIdle /\ GeomIdle /\ tixi_handle = "none" /\ OtherIdle
    /\ SPACING = 0 /\ subd_c = 0 /\ fuse = 0 /\ f_nb = 0 /\ subd = <<>>
    /\ center_of_gravity \in CoGs
    /\ wing_sym = <<>> /\ w_seg_sec = <<>>
    /\ seg_length = <<>> /\ mass_seg_i = <<>>
    /\ chordFlip = FALSE
    /\ w = 0 /\ row = 0 /\ a = 0 /\ DEN = 0
    /\ NE \in 0..MaxEngines
    /\ en_mass \in 0..MaxMass
    /\ EN_PLACEMENT = <<>>
    /\ Ixx = 0 /\ Iyy = 0 /\ Izz = 0 /\ Ixy = 0 /\ Iyz = 0 /\ Ixz = 0
    /\ cloud = <<>> /\ cloudTag = <<>>

\* lines 301-310, one iteration: engine e = w adds its point mass.  Its row of
\* EN_PLACEMENT is drawn when it is read.
EngineStep ==
    /\ call = "engine_inertia"
    /\ pc = "engine"
    /\ w < NE
    /\ \E place \in EnginePlacements :
          /\ EN_PLACEMENT' = Append(EN_PLACEMENT, place)
          /\ SetTensor(Add6(Tensor,
                EngineLumpedInertia(en_mass, Offset(place, center_of_gravity))))
    /\ w' = w + 1
    /\ UNCHANGED <<geomVars, subd, call, pc, w_nb, wing_seg_nb, topoState, SPACING, subd_c, fuse, f_nb,
                   center_of_gravity, wing_sym, w_seg_sec, seg_length, mass_seg_i,
                   chordFlip, row, a, DEN, NE, en_mass, cloud, cloudTag>>
    /\ UNCHANGED otherVars

\* line 312
EngineReturn ==
    /\ call = "engine_inertia"
    /\ pc = "engine"
    /\ w >= NE
    /\ pc' = "return"
    /\ UNCHANGED <<geomVars, call, w_nb, wing_seg_nb, topoState, inertiaVars>>
    /\ UNCHANGED otherVars

\* -------------------------------------------------------------------------
\* wing_inertia                                (lumpedmassesinertia.py 140-274)
\* -------------------------------------------------------------------------
\* lines 186-188: DEN = 0 + 1 + ... + (subd_c + 1)
RECURSIVE SumRange(_)
SumRange(n) == IF n <= 0 THEN 0 ELSE (n - 1) + SumRange(n - 1)

Denominator(sc) == SumRange(sc + 2)

\* The segment lengths tried: none, less than any SPACING, and the longest.
SegLengths == {0, 1, MaxLen}

\* math.ceil(length / SPACING) for length >= 0 and SPACING > 0
Floor(len, sp) == len \div sp
Ceil(len, sp) == (len + sp - 1) \div sp

\* lines 197-199
WingSubdL(len, sp) == IF Ceil(len, sp) = 0 THEN 1 ELSE Ceil(len, sp)

\* tigl.wingGetLowerPoint(w, seg, eta, xsi) and tigl.wingGetUpperPoint, with
\* eta = etn/etd and xsi = zn/zd.  The wing of the model has segments 6 long
\* and a chord of 6, each segment swept back by 1; the lower surface of wing w
\* lies at z = -w and the upper at z = w; points are rounded to the grid.  With
\* flip the chord parameter runs from the trailing edge to the leading edge.
wingGetLowerPoint(flip, wing, seg, etn, etd, zn, zd) ==
    <<(seg - 1) + (IF flip THEN (6 * (zd - zn)) \div zd ELSE (6 * zn) \div zd),
      6 * (seg - 1) + (6 * etn) \div etd,
      0 - wing>>

wingGetUpperPoint(flip, wing, seg, etn, etd, zn, zd) ==
    <<(seg - 1) + (IF flip THEN (6 * (zd - zn)) \div zd ELSE (6 * zn) \div zd),
      6 * (seg - 1) + (6 * etn) \div etd,
      wing>>

\* lines 207-212: ZLE, 0 when the chord parameter 0 is the leading edge and 1
\* when the chord parameter 1 is.
LeadingEdge(flip, wing, seg, etn, etd, den) ==
    IF wingGetLowerPoint(flip, wing, seg, etn, etd, 0, den)[1]
          < wingGetLowerPoint(flip, wing, seg, etn, etd, den, den)[1]
    THEN 0 ELSE 1

\* lines 219-223: the values of ze, as numerators over den, from k on; zn is
\* the value ze has before iteration k.
RECURSIVE ChordParams(_, _, _, _)
ChordParams(sc, ZLE, k, zn) ==
    IF k > sc THEN <<>>
    ELSE LET ze == IF ZLE = 0 THEN zn + k ELSE zn - k
         IN  <<ze>> \o ChordParams(sc, ZLE, k + 1, ze)

\* lines 209-223: the chord parameters of one station, ze starting at the
\* leading edge.
ChordSamplesPastEnd(sc, ZLE, den) ==
    ChordParams(sc + 2, ZLE, 0, IF ZLE = 0 THEN 0 ELSE den)
ChordSamples(sc, ZLE, den) ==
    ChordParams(sc, ZLE, 0, IF ZLE = 0 THEN 0 ELSE den)

\* lines 224-231: the lower and the upper point at each chord parameter.
RECURSIVE ChordLoop(_, _, _, _, _, _, _)
ChordLoop(flip, wing, seg, etn, etd, den, zes) ==
    IF zes = <<>> THEN <<>>
    ELSE <<wingGetLowerPoint(flip, wing, seg, etn, etd, Head(zes), den),
           wingGetUpperPoint(flip, wing, seg, etn, etd, Head(zes), den)>>
         \o ChordLoop(flip, wing, seg, etn, etd, den, Tail(zes))

\* lines 204-231: the nodes of the station et = etn/etd.
StationNodes(flip, wing, seg, etn, etd, sc, den) ==
    LET le == wingGetLowerPoint(flip, wing, seg, etn, etd, 0, den)
        le2 == wingGetLowerPoint(flip, wing, seg, etn, etd, den, den)
        ZLE == LeadingEdge(flip, wing, seg, etn, etd, den)
    IN  <<le, le2>>
        \o ChordLoop(flip, wing, seg, etn, etd, den, ChordSamples(sc, ZLE, den))

\* lines 203-231: wx, wy, wz of one segment, stations jn..subd_l.
RECURSIVE SpanLoop(_, _, _, _, _, _, _)
SpanLoop(flip, wing, seg, jn, subd_l, sc, den) ==
    IF jn > subd_l THEN <<>>
    ELSE StationNodes(flip, wing, seg, jn, subd_l, sc, den)
         \o SpanLoop(flip, wing, seg, jn + 1, subd_l, sc, den)

\* lines 236-241: what one node of mass M at offset c adds to the tensor.
WingLumpedInertiaXX(M, c) ==
    <<M * (c[2] * c[2] + c[3] * c[3]),
      M * (c[1] * c[1] + c[3] * c[3]),
      M * (c[1] * c[1] + c[2] * c[2]),
      M * c[1] * c[2],
      M * c[2] * c[3],
      M * c[1] * c[1]>>
WingLumpedInertia(M, c) ==
    <<M * (c[2] * c[2] + c[3] * c[3]),
      M * (c[1] * c[1] + c[3] * c[3]),
      M * (c[1] * c[1] + c[2] * c[2]),
      M * c[1] * c[2],
      M * c[2] * c[3],
      M * c[1] * c[3]>>

\* lines 265-270: the same for a mirrored node.
MirrorLumpedInertiaAbs(M, c) ==
    <<M * (c[2] * c[2] + c[3] * c[3]),
      M * (c[1] * c[1] + c[3] * c[3]),
      M * (c[1] * c[1] + c[2] * c[2]),
      M * c[1] * c[1],
      M * c[2] * c[2],
      M * c[3] * c[3]>>
MirrorLumpedInertia(M, c) ==
    <<M * (c[2] * c[2] + c[3] * c[3]),
      M * (c[1] * c[1] + c[3] * c[3]),
      M * (c[1] * c[1] + c[2] * c[2]),
      M * c[1] * c[2],
      M * c[2] * c[3],
      M * c[1] * c[3]>>

\* np.sum of lines 236-241 over the nodes of a segment.
RECURSIVE SumWing(_, _, _)
SumWing(M, pts, cog) ==
    IF Len(pts) = 0 THEN <<0, 0, 0, 0, 0, 0>>
    ELSE IF Len(pts) = 1 THEN WingLumpedInertia(M, Offset(pts[1], cog))
    ELSE LET half == Len(pts) \div 2
         IN  Add6(SumWing(M, SubSeq(pts, 1, half), cog),
                  SumWing(M, SubSeq(pts, half + 1, Len(pts)), cog))

\* np.sum of lines 265-270 over the mirrored nodes of a segment.
RECURSIVE SumMirror(_, _, _)
SumMirror(M, pts, cog) ==
    IF Len(pts) = 0 THEN <<0, 0, 0, 0, 0, 0>>
    ELSE IF Len(pts) = 1 THEN MirrorLumpedInertia(M, Offset(pts[1], cog))
    ELSE LET half == Len(pts) \div 2
         IN  Add6(SumMirror(M, SubSeq(pts, 1, half), cog),
                  SumMirror(M, SubSeq(pts, half + 1, Len(pts)), cog))

\* lines 243-254: <<symx, symy, symz>> of a symmetry code 1, 2 or 3.
SymSigns(sym) ==
    CASE sym = 1 -> <<1, 1, -1>>
      [] sym = 2 -> <<1, -1, 1>>
      [] sym = 3 -> <<-1, 1, 1>>

\* lines 255-257
MirrorNodeThroughOrigin(p, sg) == <<0 - p[1], 0 - p[2], 0 - p[3]>>
MirrorNode(p, sg) == <<p[1] * sg[1], p[2] * sg[2], p[3] * sg[3]>>

\* line 232: the column of mass_seg_i read for wing w (1-based).
WingMassColumn(nfuse, wing, off) == nfuse + wing + off

\* line 261: the column of mass_seg_i read for the mirror of wing w.
MirrorMassColumn(nfuse, wing, off) == nfuse + wing + off

\* The orders of the segments of a wing of n segments that
\* check_segment_connection returns in w_seg_sec[:, w, 2].
OrdersReturned(n) == {p \in Perms(n) : p[1] = 1 \/ (n >= 3 /\ p[2] # 1)}

WingInit ==
    /\ call = "wing_inertia"
    /\ pc = "wing"
    /\ w_nb \in 1..MaxWings
    /\ wing_seg_nb \in {f \in [1..w_nb -> 1..MaxInertiaSeg] :
                            SeqSum(f) <= MaxInertiaSeg}
    /\ TopoIdle /\ GeomIdle /\ tixi_handle = "open" /\ OtherIdle
    /\ SPACING \in 1..MaxSpacing
    /\ subd_c \in 0..MaxSubdC
    /\ fuse \in 0..1
    /\ f_nb = 0 /\ subd = <<>>
    /\ center_of_gravity \in CoGs
    /\ wing_sym \in [1..w_nb -> 0..3]
    /\ \E order \in [1..w_nb -> UNION {OrdersReturned(n) : n \in 1..MaxInertiaSeg}] :
          /\ \A wing \in 1..w_nb : order[wing] \in OrdersReturned(wing_seg_nb[wing])
          /\ w_seg_sec = [r \in 1..SeqMax(wing_seg_nb) |-> [wing \in 1..w_nb |->
                            IF r <= wing_seg_nb[wing]
                            THEN <<r, r + 1, order[wing][r]>> ELSE ZeroRow]]
    /\ seg_length = <<>> /\ mass_seg_i = <<>>
    /\ chordFlip \in BOOLEAN
    /\ w = 1 /\ row = 0 /\ a = 0 /\ DEN = 0
    /\ NE = 0 /\ en_mass = 0 /\ EN_PLACEMENT = <<>>
    /\ Ixx = 0 /\ Iyy = 0 /\ Izz = 0 /\ Ixy = 0 /\ Iyz = 0 /\ Ixz = 0
    /\ cloud = <<>> /\ cloudTag = <<>>

\* lines 185-189: wing w starts.
WingStart ==
    /\ call = "wing_inertia"
    /\ pc = "wing"
    /\ DEN' = Denominator(subd_c)
    /\ row' = 1
    /\ pc' = "segment"
    /\ UNCHANGED <<geomVars, subd, call, w_nb, wing_seg_nb, topoState, SPACING, subd_c, fuse, f_nb,
                   center_of_gravity, wing_sym, w_seg_sec, seg_length, mass_seg_i,
                   chordFlip, w, a, NE, en_mass, EN_PLACEMENT,
                   Ixx, Iyy, Izz, Ixy, Iyz, Ixz, cloud, cloudTag>>
    /\ UNCHANGED otherVars

\* The loop of line 190 has a segment to process.
HasSegment == row <= Len(w_seg_sec) /\ w_seg_sec[row][w][3] # 0

\* What is remembered of each node of the cloud: the component and segment it
\* samples, the mass M it was given, whether it is a mirrored node and of which
\* node of the cloud (src, 0 for a sampled node), and the column of mass_seg_i
\* that belongs to its component (the mirrored wing's column follows the
\* wing's).
Tags(n, comp, seg, M, mir, col, first) ==
    [k \in 1..n |-> [comp |-> comp, seg |-> seg, m |-> M, mirror |-> mir,
                     col |-> col, src |-> IF mir THEN first + k - 1 ELSE 0]]

\* lines 190-270, one iteration: the nodes of segment i of wing w and, for a
\* symmetric wing, their mirror images.  The entries of awg.wing_seg_length and
\* mass_seg_i for the segment are drawn when they are read; a mass is drawn as
\* a whole number per node so that its division by the node count is exact.
WingSegment ==
    /\ call = "wing_inertia"
    /\ pc = "segment"
    /\ HasSegment
    /\ \E len \in SegLengths, mo \in 1..MaxMass,
          mm \in IF wing_sym[w] # 0 THEN 0..MaxMass ELSE {0} :
        \E wxyz \in {SpanLoop(chordFlip, w, w_seg_sec[row][w][3], 0,
                              WingSubdL(len, SPACING), subd_c, DEN)} :
        \E wxyz_t \in {IF wing_sym[w] # 0
                        THEN [k \in 1..Len(wxyz) |->
                                MirrorNode(wxyz[k], SymSigns(wing_sym[w]))]
                        ELSE <<>>} :
        \E masses \in {(<<w_seg_sec[row][w][3], WingMassColumn(fuse, w, a)>>
                            :> mo * Len(wxyz))
                        @@ (IF wing_sym[w] # 0
                            THEN (<<w_seg_sec[row][w][3],
                                    WingMassColumn(fuse, w, a) + 1>>
                                      :> mm * Len(wxyz))
                            ELSE <<>>)
                        @@ mass_seg_i} :
          LET seg == w_seg_sec[row][w][3]
              nodes == Len(wxyz)
              M == masses[<<seg, WingMassColumn(fuse, w, a)>>] \div nodes
              M_t == masses[<<seg, MirrorMassColumn(fuse, w, a)>>] \div Len(wxyz_t)
          IN  /\ seg_length' = (<<seg, w + a>> :> len) @@ seg_length
              /\ subd' = [comp |-> w, seg |-> seg, key |-> <<seg, w + a>>,
                          l |-> WingSubdL(len, SPACING),
                          zle |-> LeadingEdge(chordFlip, w, seg, 0, 1, DEN),
                          ze |-> ChordSamples(subd_c,
                                   LeadingEdge(chordFlip, w, seg, 0, 1, DEN), DEN)]
              /\ mass_seg_i' = masses
              /\ IF wing_sym[w] # 0
                 THEN /\ cloud' = cloud \o wxyz \o wxyz_t
                      /\ cloudTag' = cloudTag
                            \o Tags(nodes, w, seg, M, FALSE, fuse + w + a, 0)
                            \o Tags(nodes, w, seg, M_t, TRUE, fuse + w + a + 1,
                                    Len(cloud) + 1)
                      /\ SetTensor(Add6(Add6(Tensor,
                            SumWing(M, wxyz, center_of_gravity)),
                            SumMirror(M_t, wxyz_t, center_of_gravity)))
                 ELSE /\ cloud' = cloud \o wxyz
                      /\ cloudTag' = cloudTag
                            \o Tags(nodes, w, seg, M, FALSE, fuse + w + a, 0)
                      /\ SetTensor(Add6(Tensor,
                            SumWing(M, wxyz, center_of_gravity)))
    /\ row' = row + 1
    /\ UNCHANGED <<geomVars, call, pc, w_nb, wing_seg_nb, topoState, SPACING, subd_c, fuse, f_nb,
                   center_of_gravity, wing_sym, w_seg_sec, chordFlip, w, a, DEN,
                   NE, en_mass, EN_PLACEMENT>>
    /\ UNCHANGED otherVars

\* lines 271-272: the offset a after a wing of symmetry code sym.
NextOffsetAlways(off, sym) == off + 1
NextOffset(off, sym) == IF sym # 0 THEN off + 1 ELSE off

\* lines 190-192 (end of the column or a zero entry), 271-272, and line 274
\* after the last wing.
WingEnd ==
    /\ call = "wing_inertia"
    /\ pc = "segment"
    /\ ~HasSegment
    /\ a' = NextOffset(a, wing_sym[w])
    /\ IF w < w_nb
       THEN /\ w' = w + 1
            /\ pc' = "wing"
       ELSE /\ w' = w
            /\ pc' = "return"
    /\ UNCHANGED <<geomVars, subd, call, w_nb, wing_seg_nb, topoState, SPACING, subd_c, fuse, f_nb,
                   center_of_gravity, wing_sym, w_seg_sec, seg_length, mass_seg_i,
                   chordFlip, row, DEN, NE, en_mass, EN_PLACEMENT,
                   Ixx, Iyy, Izz, Ixy, Iyz, Ixz, cloud, cloudTag>>
    /\ UNCHANGED otherVars

\* -------------------------------------------------------------------------
\* fuselage_inertia                             (lumpedmassesinertia.py 41-135)
\* -------------------------------------------------------------------------
\* lines 85, 90-91
FuseSubdL(len, sp) == IF Ceil(len, sp) = 0 THEN 1 ELSE Ceil(len, sp)
\* lines 87, 92-93
FuseSubdC0(per, sp) == IF Ceil(per, sp) = 0 THEN 1 ELSE Ceil(per, sp)
\* lines 89, 94-95: ceil((width / 2) / SPACING)
FuseSubdR(width, sp) == IF Ceil(width, 2 * sp) = 0 THEN 1 ELSE Ceil(width, 2 * sp)

\* lines 98-99: entry k of D0 = sqrt(arange(n) / n) is kept in D when
\*   sqrt(k/n) - (sqrt((n-1)/n) - 0.98) >= 0,
\* that is (both sides squared, 0.98 = 49/50) when r <= 0 or
\* 4*k*n*2401*2500 >= r*r with r = 99*n - 2500 - 2500*k.
KeepD(k, n) ==
    LET r == 99 * n - 2500 - 2500 * k
    IN  r <= 0 \/ 4 * k * n * 2401 * 2500 >= r * r

\* len(D)
LenD(n) == Cardinality({k \in 0..(n - 1) : KeepD(k, n)})

\* cos and sin of the golden angle times t (line 114), rounded to the grid.
CosQ(t) == <<1, -1, 0, 1, -1, 1, 0, 0>>[(t % 8) + 1]
SinQ(t) == <<0, 1, -1, 1, 0, -1, 1, -1>>[(t % 8) + 1]

\* afg.fuse_center_section_point[seg-1][f-1]: fuselage f runs along x at
\* y = 3*(f-1), z = 0, its segments 6 long.
FuseCenterSectionPoint(f, seg) == <<6 * (seg - 1), 3 * (f - 1), 0>>

\* tigl.fuselageGetPoint(f, seg, eta, zeta) with eta = etn/etd, zeta = zn/zd:
\* the sections of the model are diamonds of half-width 2 around the centre
\* line, met at their four corners.
fuselageGetPoint(f, seg, etn, etd, zn, zd) ==
    LET q == (4 * zn) \div zd
        dy == <<2, 0, -2, 0>>[(q % 4) + 1]
        dz == <<0, 2, 0, -2>>[(q % 4) + 1]
    IN  <<6 * (seg - 1) + (6 * etn) \div etd, 3 * (f - 1) + dy, dz>>

ISqrt(n) == CHOOSE r \in 0..n : r * r <= n /\ (r + 1) * (r + 1) > n

\* lines 103-111: the nodes of the ring at et = etn/etd, k = kk..SUBD_C0.
RECURSIVE RingLoop(_, _, _, _, _, _)
RingLoop(f, seg, etn, etd, sc0, kk) ==
    IF kk > sc0 THEN <<>>
    ELSE <<fuselageGetPoint(f, seg, etn, etd, kk, sc0)>>
         \o RingLoop(f, seg, etn, etd, sc0, kk + 1)

\* lines 112-123: the nodes inside the section, spread from the centre towards
\* the last ring node <<x0, y0, z0>>; their distances from the centre are
\* rounded to the grid.
SpokeNodes(last, c, n) ==
    LET dist == ISqrt((last[2] - c[2]) * (last[2] - c[2])
                      + (last[3] - c[3]) * (last[3] - c[3]))
    IN  [t \in 1..n |->
            LET deltar == (dist * t) \div n
            IN  <<last[1], c[2] + deltar * CosQ(t - 1), c[3] + deltar * SinQ(t - 1)>>]

\* lines 101-123: fx, fy, fz of one segment, stations jn..subd_l.
RECURSIVE FuseSpanLoop(_, _, _, _, _, _)
FuseSpanLoop(f, seg, jn, subd_l, sc0, nD) ==
    IF jn > subd_l THEN <<>>
    ELSE LET ring == RingLoop(f, seg, jn, subd_l, sc0, 0)
         IN  ring
             \o SpokeNodes(ring[Len(ring)], FuseCenterSectionPoint(f, seg), nD)
             \o FuseSpanLoop(f, seg, jn + 1, subd_l, sc0, nD)

\* lines 128-133: what one node of mass M at offset c adds to the tensor.
FuseLumpedInertiaDifference(M, c) ==
    <<M * (c[2] * c[2] - c[3] * c[3]),
      M * (c[1] * c[1] - c[3] * c[3]),
      M * (c[1] * c[1] - c[2] * c[2]),
      M * c[1] * c[2],
      M * c[2] * c[3],
      M * c[1] * c[3]>>
FuseLumpedInertia(M, c) ==
    <<M * (c[2] * c[2] + c[3] * c[3]),
      M * (c[1] * c[1] + c[3] * c[3]),
      M * (c[1] * c[1] + c[2] * c[2]),
      M * c[1] * c[2],
      M * c[2] * c[3],
      M * c[1] * c[3]>>

\* np.sum of lines 128-133 over the nodes of a segment.
RECURSIVE SumFuse(_, _, _)
SumFuse(M, pts, cog) ==
    IF Len(pts) = 0 THEN <<0, 0, 0, 0, 0, 0>>
    ELSE IF Len(pts) = 1 THEN FuseLumpedInertia(M, Offset(pts[1], cog))
    ELSE LET half == Len(pts) \div 2
         IN  Add6(SumFuse(M, SubSeq(pts, 1, half), cog),
                  SumFuse(M, SubSeq(pts, half + 1, Len(pts)), cog))

\* The segment counts of the fuselages.
FuseSegCounts(n) == {f \in [1..n -> 1..MaxInertiaSeg] : SeqSum(f) <= MaxInertiaSeg + 1}

FuseInit ==
    /\ call = "fuselage_inertia"
    /\ pc = "segment"
    /\ w_nb = 0 /\ wing_seg_nb = <<>>
    /\ TopoIdle /\ GeomIdle /\ tixi_handle = "open" /\ OtherIdle
    /\ SPACING \in 1..MaxSpacing
    /\ subd_c = 0 /\ fuse = 0
    /\ f_nb \in 1..MaxWings /\ subd = <<>>
    /\ center_of_gravity \in CoGs
    /\ wing_sym = <<>>
    /\ \E cnt \in FuseSegCounts(f_nb) :
          w_seg_sec = [r \in 1..SeqMax(cnt) |-> [f \in 1..f_nb |->
                          IF r <= cnt[f] THEN <<r, r + 1, r>> ELSE ZeroRow]]
    /\ seg_length = <<>> /\ mass_seg_i = <<>>
    /\ chordFlip = FALSE
    /\ w = 1 /\ row = 1 /\ a = 0 /\ DEN = 0
    /\ NE = 0 /\ en_mass = 0 /\ EN_PLACEMENT = <<>>
    /\ Ixx = 0 /\ Iyy = 0 /\ Izz = 0 /\ Ixy = 0 /\ Iyz = 0 /\ Ixz = 0
    /\ cloud = <<>> /\ cloudTag = <<>>

\* lines 80-133, one iteration: the nodes of segment i of fuselage f = w.  The
\* entries of afg.fuse_seg_length, fuse_sec_per, fuse_sec_width and mass_seg_i
\* for the segment are drawn when they are read.  Line 80 does not stop at a
\* zero entry of f_seg_sec: int(i)-1 = -1 then reads the last row of the afg
\* arrays and tigl.fuselageGetPoint(f, 0, ...) raises.
FuseSegment ==
    /\ call = "fuselage_inertia"
    /\ pc = "segment"
    /\ IF w_seg_sec[row][w][3] = 0
       THEN /\ pc' = "TiglException"
            /\ UNCHANGED <<seg_length, subd, mass_seg_i, cloud, cloudTag, row, w,
                           Ixx, Iyy, Izz, Ixy, Iyz, Ixz>>
       ELSE
        \E len \in SegLengths, per \in {0, MaxLen}, width \in {0, 2 * MaxLen},
           mo \in 1..MaxMass :
        \E fxyz \in {FuseSpanLoop(w, w_seg_sec[row][w][3], 0,
                          FuseSubdL(len, SPACING), FuseSubdC0(per, SPACING),
                          LenD(FuseSubdR(width, SPACING)
                               * FuseSubdC0(per, SPACING)))} :
          LET seg == w_seg_sec[row][w][3]
              nodes == Len(fxyz)
              masses == (<<seg, w>> :> mo * nodes) @@ mass_seg_i
              M == masses[<<seg, w>>] \div nodes
          IN  /\ seg_length' = (<<seg, w>> :> <<len, per, width>>) @@ seg_length
              /\ subd' = [comp |-> w, seg |-> seg, key |-> <<seg, w>>,
                          l |-> FuseSubdL(len, SPACING),
                          c0 |-> FuseSubdC0(per, SPACING),
                          r |-> FuseSubdR(width, SPACING)]
              /\ mass_seg_i' = masses
              /\ cloud' = cloud \o fxyz
              /\ cloudTag' = cloudTag \o Tags(nodes, w, seg, M, FALSE, w, 0)
              /\ SetTensor(Add6(Tensor, SumFuse(M, fxyz, center_of_gravity)))
              /\ IF row < Len(w_seg_sec)
                 THEN /\ row' = row + 1 /\ w' = w /\ pc' = "segment"
                 ELSE IF w < f_nb
                 THEN /\ row' = 1 /\ w' = w + 1 /\ pc' = "segment"
                 ELSE /\ row' = row /\ w' = w /\ pc' = "return"
    /\ UNCHANGED <<geomVars, call, w_nb, wing_seg_nb, topoState, SPACING, subd_c, fuse, f_nb,
                   center_of_gravity, wing_sym, w_seg_sec, chordFlip, a, DEN,
                   NE, en_mass, EN_PLACEMENT>>
    /\ UNCHANGED otherVars

InertiaInit == EngineInit \/ WingInit \/ FuseInit

InertiaNext ==
    \/ EngineStep
    \/ EngineReturn
    \/ WingStart
    \/ WingSegment
    \/ WingEnd
    \/ FuseSegment

SpecInertia == InertiaInit /\ [][InertiaNext]_vars

\* -------------------------------------------------------------------------
\* geom_eval, the centre point of each segment   (bwbwingsanalysis.py 339-376)
\* -------------------------------------------------------------------------
\* The section centre points tried for the root section of a wing; the next
\* sections follow at steps of CenterStep.  Coordinates are even so that the
\* halves of lines 347-355 are whole.
CenterRoots == {<<2, 2, 2>>, <<4, 0, -2>>}
CenterStep == <<2, 4, 2>>

\* lines 347-355
MidPoint(p, q) == <<(p[1] + q[1]) \div 2, (p[2] + q[2]) \div 2, (p[3] + q[3]) \div 2>>

\* lines 357-368: <<symx, symy, symz>> of a symmetry code 1, 2 or 3.
SegPointSymSigns(sym) ==
    CASE sym = 1 -> <<1, 1, -1>>
      [] sym = 2 -> <<1, -1, 1>>
      [] sym = 3 -> <<-1, 1, 1>>

\* lines 369-374
MirrorSegPoint(p, sg) == <<p[1] * sg[1], p[2] * sg[2], p[3] * sg[3]>>

\* lines 214-218: awg.wing_nb counts a symmetric wing twice.
WingNb(sym) == Len(sym) + Cardinality({k \in 1..Len(sym) : sym[k] # 0})

\* The variables geom_eval leaves alone.
topoRest == <<secPoint, j, nbmax, seg_sec_reordered, sec_index, start_index>>
inertiaRest == <<SPACING, subd_c, fuse, f_nb, subd, center_of_gravity,
                 mass_seg_i, chordFlip, w, row, DEN, NE, en_mass, EN_PLACEMENT,
                 Ixx, Iyy, Izz, Ixy, Iyz, Ixz, cloud, cloudTag>>

\* geom_eval at line 200, its handle open (lines 194-195), on a freshly
\* created awg.
GeomInit ==
    /\ call = "geom_eval"
    /\ pc = "count"
    /\ w_nb \in 1..MaxWings
    /\ wing_seg_nb = <<>>
    /\ wing_plt_area = <<>> /\ wing_plt_area_xz = <<>> /\ wing_plt_area_yz = <<>>
    /\ secPoint = <<>>
    /\ i = 1 /\ j = 0 /\ nbmax = 0
    /\ seg_sec = <<>> /\ seg_sec_reordered = <<>> /\ sec_index = <<>>
    /\ start_index = <<>> /\ sec_nb = <<>>
    /\ SPACING = 0 /\ subd_c = 0 /\ fuse = 0 /\ f_nb = 0 /\ subd = <<>>
    /\ center_of_gravity = <<0, 0, 0>>
    /\ wing_sym = <<>>
    /\ w_seg_sec = <<>>
    /\ seg_length = <<>> /\ mass_seg_i = <<>>
    /\ chordFlip = FALSE
    /\ w = 0 /\ row = 0 /\ a = 0 /\ DEN = 0
    /\ NE = 0 /\ en_mass = 0 /\ EN_PLACEMENT = <<>>
    /\ Ixx = 0 /\ Iyy = 0 /\ Izz = 0 /\ Ixy = 0 /\ Iyz = 0 /\ Ixz = 0
    /\ cloud = <<>> /\ cloudTag = <<>>
    /\ wing_nb = w_nb
    /\ wing_center_section_point = <<>>
    /\ wing_center_seg_point = <<>>
    /\ c_next = FALSE
    /\ is_horiz = <<>> /\ wing_span = <<>> /\ main_wing_index = 0
    /\ main_wing_surface = 0 /\ tail_wings_surface = <<>>
    /\ total_wings_surface = 0
    /\ tixi_handle = "open" /\ OtherIdle
    /\ geom_queries = 0

\* lines 213-238, one iteration: the oracle's answers about wing i (symmetry,
\* segment count, reference areas) are drawn when they are asked.  The volumes
\* and section counts of lines 219, 221 and 238 are left out.
CountWing ==
    /\ call = "geom_eval"
    /\ pc = "count"
    /\ i <= w_nb
    /\ \E sym \in 0..3, ar \in ReferenceAreas,
          segs \in 1..(MaxGeomSeg + 1 - SeqSum(wing_seg_nb) - (w_nb - i)) :
        LET double == IF sym # 0 THEN 2 ELSE 1
            horiz == ar[1] * double > ar[2] * double /\ ar[1] * double > ar[3] * double
        IN  /\ segs <= MaxGeomSeg
            /\ wing_sym' = Append(wing_sym, sym)
            /\ wing_nb' = IF sym # 0 THEN wing_nb + 1 ELSE wing_nb
            /\ wing_seg_nb' = Append(wing_seg_nb, segs)
            /\ wing_plt_area' = Append(wing_plt_area, ar[1] * double)
            /\ wing_plt_area_xz' = Append(wing_plt_area_xz, ar[2] * double)
            /\ wing_plt_area_yz' = Append(wing_plt_area_yz, ar[3] * double)
            /\ is_horiz' = IF sym # 0 THEN is_horiz \o <<horiz, horiz>>
                           ELSE Append(is_horiz, horiz)
    /\ geom_queries' = geom_queries + 1
    /\ IF i < w_nb THEN i' = i + 1 /\ pc' = "count"
                   ELSE i' = i /\ pc' = "connect"
    /\ UNCHANGED <<call, w_nb, seg_sec, sec_nb, w_seg_sec, seg_length, a,
                   topoRest, inertiaRest, wing_center_section_point,
                   wing_center_seg_point, c_next, wing_span, main_wing_index,
                   main_wing_surface, tail_wings_surface, total_wings_surface,
                   tixi_handle>>
    /\ UNCHANGED otherVars

\* The section counts check_segment_connection returns for wings in valid
\* chains: segment count + 1 for the first wing; for a later wing one less
\* when the section that line 114 puts first is met again in its chain.
SecNbReturned(wing, n) == IF wing = 1 THEN {n + 1} ELSE {n, n + 1}

\* lines 241-255: the call of check_segment_connection, which returns an order
\* of the segments of each wing or raises ValueError (line 113), and the
\* arrays created from its result.
Connect ==
    /\ call = "geom_eval"
    /\ pc = "connect"
    /\ \/ /\ \E order \in [1..w_nb -> UNION {OrdersReturned(n) : n \in 1..MaxGeomSeg}],
                secs \in [1..w_nb -> 1..(MaxGeomSeg + 1)] :
               /\ \A wing \in 1..w_nb :
                     /\ order[wing] \in OrdersReturned(wing_seg_nb[wing])
                     /\ secs[wing] \in SecNbReturned(wing, wing_seg_nb[wing])
               /\ seg_sec' = [r \in 1..SeqMax(wing_seg_nb) |-> [wing \in 1..w_nb |->
                                 IF r <= wing_seg_nb[wing]
                                 THEN <<r, r + 1, order[wing][r]>> ELSE ZeroRow]]
               /\ sec_nb' = secs
               /\ wing_center_section_point' = Zeros3(SeqMax(secs), w_nb)
          /\ wing_center_seg_point' = Zeros3(SeqMax(wing_seg_nb), wing_nb)
          /\ pc' = "analysis"
          /\ i' = 1
       \/ /\ pc' = "ValueError"
          /\ UNCHANGED <<seg_sec, sec_nb, wing_center_section_point,
                         wing_center_seg_point, i>>
    /\ geom_queries' = geom_queries + 1
    /\ UNCHANGED <<call, w_nb, wing_seg_nb, wing_plt_area, wing_plt_area_xz,
                   wing_plt_area_yz, wing_sym, w_seg_sec, seg_length, a,
                   topoRest, inertiaRest, wing_nb, c_next, geomResults,
                   tixi_handle>>
    /\ UNCHANGED otherVars

\* The spans and the wetted surfaces the oracle reports.
MaxSpan == 2
MaxSurface == 1

\* The centre of section s of a wing whose root section centre is root.
SectionCenter(root, s) ==
    <<root[1] + (s - 1) * CenterStep[1],
      root[2] + (s - 1) * CenterStep[2],
      root[3] + (s - 1) * CenterStep[3]>>

\* The row of seg_sec that holds segment number seg of `wing`.
RowOfSegment(ss, wing, seg) == CHOOSE r \in DOMAIN ss : ss[r][wing][3] = seg

\* lines 278-308: row jj of wing_center_section_point is the centre of the
\* inner section of segment number jj (eta = 0.0), and the row after the last
\* is the centre of the outer section of segment number n (eta = 1.0).
SectionCentres(ss, wing, n, root) ==
    [rr \in 1..(n + 1) |->
        IF rr <= n
        THEN SectionCenter(root, ss[RowOfSegment(ss, wing, rr)][wing][1])
        ELSE SectionCenter(root, ss[RowOfSegment(ss, wing, n)][wing][2])]

\* lines 312-317: the main wing after wing idx of span `span` was measured;
\* spans holds the spans of the wings before it and b of the code is their
\* greatest, 0 when there are none.
MainWingLastOnTies(spans, span, idx, main) ==
    IF span >= SeqMax(<<0>> \o spans) THEN idx ELSE main
MainWing(spans, span, idx, main) ==
    IF span > SeqMax(<<0>> \o spans) THEN idx ELSE main

\* lines 264-317, one iteration: the analysis of wing i.  The chords, the MAC,
\* the thicknesses and the segment volumes are left out.  The arrays have
\* max(awg.wing_sec_nb) rows: writing the row after the last segment of a wing
\* with more sections than that raises IndexError (line 304).
WingAnalysis ==
    /\ call = "geom_eval"
    /\ pc = "analysis"
    /\ i <= w_nb
    /\ geom_queries' = geom_queries + 1
    /\ IF wing_seg_nb[i] + 1 > Len(wing_center_section_point)
       THEN /\ pc' = "IndexError"
            /\ UNCHANGED <<i, wing_center_section_point, wing_span, main_wing_index>>
       ELSE \E root \in CenterRoots, span \in 1..MaxSpan :
            /\ wing_center_section_point' =
                  [rr \in 1..Len(wing_center_section_point) |->
                     IF rr <= wing_seg_nb[i] + 1
                     THEN [wing_center_section_point[rr] EXCEPT
                             ![i] = SectionCentres(seg_sec, i, wing_seg_nb[i], root)[rr]]
                     ELSE wing_center_section_point[rr]]
            /\ wing_span' = Append(wing_span, span)
            /\ main_wing_index' = MainWing(wing_span, span, i, main_wing_index)
            /\ IF i < w_nb THEN i' = i + 1 /\ pc' = "analysis"
                           ELSE i' = i /\ pc' = "length"
    /\ UNCHANGED <<call, w_nb, wing_seg_nb, wing_plt_area, wing_plt_area_xz,
                   wing_plt_area_yz, seg_sec, sec_nb, wing_sym, w_seg_sec,
                   seg_length, a, topoRest, inertiaRest, wing_nb,
                   wing_center_seg_point, c_next, is_horiz, main_wing_surface,
                   tail_wings_surface, total_wings_surface, tixi_handle>>
    /\ UNCHANGED otherVars

\* line 163
DistanceSigned(p, q) == (q[1] - p[1]) + (q[2] - p[2]) + (q[3] - p[3])
Distance(p, q) ==
    ISqrt((p[1] - q[1]) * (p[1] - q[1]) + (p[2] - q[2]) * (p[2] - q[2])
          + (p[3] - q[3]) * (p[3] - q[3]))

\* lines 157-166: the column i + a of wing i.
OwnColumnUnmirrored(sym, wing) == wing
OwnColumn(sym, wing) == wing + Cardinality({k \in 1..(wing - 1) : sym[k] # 0})

\* line 165: the column copied into the mirrored column col.
LengthSourceSelf(col) == col
LengthSource(col) == col - 1

\* lines 151-166 and 322-323: getwingsegmentlength, called by geom_eval.
getwingsegmentlength ==
    /\ call = "geom_eval"
    /\ pc = "length"
    /\ LET computed ==
             [rr \in 1..SeqMax(wing_seg_nb) |-> [col \in 1..wing_nb |->
                 IF \E wing \in 1..w_nb :
                       col = OwnColumn(wing_sym, wing) /\ rr <= wing_seg_nb[wing]
                 THEN LET wing == CHOOSE k \in 1..w_nb : col = OwnColumn(wing_sym, k)
                      IN  Distance(wing_center_section_point[rr][wing],
                                   wing_center_section_point[rr + 1][wing])
                 ELSE 0]]
       IN  seg_length' =
             [rr \in 1..SeqMax(wing_seg_nb) |-> [col \in 1..wing_nb |->
                 IF \E wing \in 1..w_nb :
                       wing_sym[wing] # 0 /\ col = OwnColumn(wing_sym, wing) + 1
                 THEN computed[rr][LengthSource(col)]
                 ELSE computed[rr][col]]]
    /\ w_seg_sec' = seg_sec
    /\ pc' = "wetted"
    /\ i' = 1
    /\ UNCHANGED <<call, w_nb, wing_seg_nb, wing_plt_area, wing_plt_area_xz,
                   wing_plt_area_yz, seg_sec, sec_nb, wing_sym, a,
                   topoRest, inertiaRest, wing_nb, wing_center_section_point,
                   wing_center_seg_point, c_next, geomResults, tixi_handle,
                   geom_queries>>
    /\ UNCHANGED otherVars

\* lines 326-335, one iteration: the wetted area of wing i; after the last
\* wing, lines 339-340.
WettedArea ==
    /\ call = "geom_eval"
    /\ pc = "wetted"
    /\ i <= w_nb
    /\ \E surface \in 1..MaxSurface :
        LET s == IF wing_sym[i] # 0 THEN surface * 2 ELSE surface
        IN  /\ IF i = main_wing_index
               THEN /\ main_wing_surface' = s
                    /\ UNCHANGED tail_wings_surface
               ELSE /\ tail_wings_surface' = Append(tail_wings_surface, s)
                    /\ UNCHANGED main_wing_surface
            /\ total_wings_surface' = total_wings_surface + s
    /\ geom_queries' = geom_queries + 1
    /\ IF i < w_nb THEN i' = i + 1 /\ pc' = "wetted"
                   ELSE i' = 1 /\ pc' = "centre"
    /\ a' = 0
    /\ c_next' = FALSE
    /\ UNCHANGED <<call, w_nb, wing_seg_nb, wing_plt_area, wing_plt_area_xz,
                   wing_plt_area_yz, seg_sec, sec_nb, wing_sym, w_seg_sec,
                   seg_length, topoRest, inertiaRest, wing_nb,
                   wing_center_section_point, wing_center_seg_point, is_horiz,
                   wing_span, main_wing_index, tixi_handle>>
    /\ UNCHANGED otherVars

\* lines 341-376, one iteration of the loop over i.
CenterSegPoint ==
    /\ call = "geom_eval"
    /\ pc = "centre"
    /\ i <= wing_nb
    /\ i' = i + 1
    /\ IF c_next
       THEN /\ c_next' = FALSE
            /\ UNCHANGED <<a, wing_center_seg_point>>
       ELSE LET wing == i - a
                segs == {seg_sec[jj][wing][3] : jj \in 1..wing_seg_nb[wing]}
                filled == [r \in 1..Len(wing_center_seg_point) |->
                            [col \in 1..wing_nb |->
                               IF col = i /\ r \in segs
                               THEN MidPoint(wing_center_section_point[r][wing],
                                             wing_center_section_point[r + 1][wing])
                               ELSE wing_center_seg_point[r][col]]]
            IN  IF wing_sym[wing] # 0
                THEN /\ wing_center_seg_point' =
                          [r \in 1..Len(filled) |-> [col \in 1..wing_nb |->
                             IF col = i + 1
                             THEN MirrorSegPoint(filled[r][i],
                                                 SegPointSymSigns(wing_sym[wing]))
                             ELSE filled[r][col]]]
                     /\ c_next' = TRUE
                     /\ a' = a + 1
                ELSE /\ wing_center_seg_point' = filled
                     /\ UNCHANGED <<a, c_next>>
    /\ UNCHANGED <<call, pc, w_nb, wing_seg_nb, wing_plt_area, wing_plt_area_xz,
                   wing_plt_area_yz, seg_sec, sec_nb, wing_sym, w_seg_sec,
                   seg_length, topoRest, inertiaRest, wing_nb,
                   wing_center_section_point, geomResults, tixi_handle,
                   geom_queries>>
    /\ UNCHANGED otherVars

\* line 378: the loop is over, the handle is closed and geom_eval returns.
GeomReturn ==
    /\ call = "geom_eval"
    /\ pc = "centre"
    /\ i > wing_nb
    /\ pc' = "return"
    /\ tixi_handle' = "closed"
    /\ UNCHANGED <<call, w_nb, wing_seg_nb, topoState, inertiaVars, wing_nb,
                   wing_center_section_point, wing_center_seg_point, c_next,
                   geomResults, geom_queries>>
    /\ UNCHANGED otherVars

\* wing_inertia and geom_eval, the two places where a wing is mirrored.
SymmetryInit == WingInit \/ GeomInit

GeomNext ==
    \/ CountWing
    \/ Connect
    \/ WingAnalysis
    \/ getwingsegmentlength
    \/ WettedArea
    \/ CenterSegPoint
    \/ GeomReturn

SymmetryNext ==
    \/ WingStart
    \/ WingSegment
    \/ WingEnd
    \/ GeomNext

SpecSymmetry == SymmetryInit /\ [][SymmetryNext]_vars

\* -------------------------------------------------------------------------
\* Oracle failures
\* -------------------------------------------------------------------------
\* The next step of the running call queries the oracle.
OracleQueryNext ==
    \/ call = "wing_inertia" /\ pc = "segment" /\ HasSegment
    \/ call = "fuselage_inertia" /\ pc = "segment"
    \/ call = "geom_eval" /\ pc \in {"count", "connect", "analysis", "wetted"}

\* Where control goes when a tigl query raises: no try statement encloses any
\* query, so the exception leaves the function.
SwallowedAndReturned == "return"
Unhandled == "TiglException"

\* A query of the oracle raises.
OracleFails ==
    /\ OracleQueryNext
    /\ pc' = Unhandled
    /\ UNCHANGED <<call, w_nb, wing_seg_nb, topoState, inertiaVars, geomVars>>
    /\ UNCHANGED otherVars

\* fuselage_inertia, wing_inertia and geom_eval with an oracle that may fail.
FailureInit == WingInit \/ FuseInit \/ GeomInit

FailureNext ==
    \/ WingStart
    \/ WingSegment
    \/ WingEnd
    \/ FuseSegment
    \/ GeomNext
    \/ OracleFails

SpecFailure == FailureInit /\ [][FailureNext]_vars

\* -------------------------------------------------------------------------
\* Properties of the inertia accumulators and of the mirroring
\* -------------------------------------------------------------------------
InLumped == call \in {"fuselage_inertia", "wing_inertia"}

\* The six contributions of a mass m at offsets d = <<dx, dy, dz>>:
\* m*(dy^2+dz^2), m*(dx^2+dz^2), m*(dx^2+dy^2), m*dx*dy, m*dy*dz, m*dx*dz.
SixFormulas(m, d) ==
    <<m * (d[2] * d[2] + d[3] * d[3]),
      m * (d[1] * d[1] + d[3] * d[3]),
      m * (d[1] * d[1] + d[2] * d[2]),
      m * d[1] * d[2],
      m * d[2] * d[3],
      m * d[1] * d[3]>>

\* The sum of the six formulas over the nodes lo..hi of the cloud.
RECURSIVE CloudSumRange(_, _)
RECURSIVE PolarSumRange(_, _)
RECURSIVE EnginePolarSum(_)
CloudSumRange(lo, hi) ==
    IF lo > hi THEN <<0, 0, 0, 0, 0, 0>>
    ELSE IF lo = hi
    THEN SixFormulas(cloudTag[lo].m, Offset(cloud[lo], center_of_gravity))
    ELSE Add6(CloudSumRange(lo, (lo + hi) \div 2),
              CloudSumRange((lo + hi) \div 2 + 1, hi))

CloudSum(k) == CloudSumRange(1, k)

\* C3: in fuselage_inertia and wing_inertia the tensor entries Ixx, Iyy, Izz,
\* Ixy, Iyz, Ixz are the sums, over every node placed in the cloud (mirrored
\* nodes included), of the six formulas for the mass given to the node and its
\* offsets from the centre of gravity.
C3_TensorIsSumOverCloud == InLumped => Tensor = CloudSum(Len(cloud))

C3_Witness_MirroredCloudSummed ==
    /\ call = "wing_inertia" /\ pc = "return"
    /\ \E k \in 1..Len(cloud) : cloudTag[k].mirror
    /\ Ixz # 0 /\ Ixy # 0 /\ Iyz # 0

RECURSIVE EngineSum(_)
EngineSum(k) ==
    IF k = 0 THEN <<0, 0, 0, 0, 0, 0>>
    ELSE Add6(SixFormulas(en_mass, Offset(EN_PLACEMENT[k], center_of_gravity)),
              EngineSum(k - 1))

\* C4: engine_inertia returns the sums over the engines of the same six
\* formulas, Ixz being the sum of en_mass*cx*cz; with no engine all six are 0.
C4_EngineTensorIsSumOverEngines ==
    (call = "engine_inertia" /\ pc = "return")
        => Tensor = EngineSum(Len(EN_PLACEMENT))

\* The mass given to the nodes lo..hi of the cloud that belong to column col.
RECURSIVE MassGivenRange(_, _, _)
MassGivenRange(lo, hi, col) ==
    IF lo > hi THEN 0
    ELSE IF lo = hi THEN (IF cloudTag[lo].col = col THEN cloudTag[lo].m ELSE 0)
    ELSE MassGivenRange(lo, (lo + hi) \div 2, col)
         + MassGivenRange((lo + hi) \div 2 + 1, hi, col)

MassGiven(k, col) == MassGivenRange(1, k, col)

RECURSIVE MassSupplied(_, _)
MassSupplied(keys, col) ==
    IF keys = {} THEN 0
    ELSE LET key == CHOOSE x \in keys : TRUE
         IN  (IF key[2] = col THEN mass_seg_i[key] ELSE 0)
             + MassSupplied(keys \ {key}, col)

\* C5: mass conservation.  When fuselage_inertia or wing_inertia returns, the
\* masses given to the nodes of each component (a fuselage, a wing, or a
\* mirrored wing with its own column of mass_seg_i) sum to the entries of
\* that component's column of mass_seg_i.
C5_MassConservedPerComponent ==
    (InLumped /\ pc = "return")
        => \A key \in DOMAIN mass_seg_i :
              MassGiven(Len(cloudTag), key[2]) = MassSupplied(DOMAIN mass_seg_i, key[2])

\* The coordinate negated by a symmetry code: 1 (XY plane) z, 2 (XZ plane) y,
\* 3 (YZ plane) x.
FlippedAxis(sym) == CASE sym = 1 -> 3 [] sym = 2 -> 2 [] sym = 3 -> 1

OnlyNegated(p, q, axis) ==
    \A d \in 1..3 : q[d] = IF d = axis THEN 0 - p[d] ELSE p[d]

\* C6: for a wing of symmetry code 1, 2 or 3, every mirrored node that
\* wing_inertia appends to the cloud and every mirrored segment centre point
\* that geom_eval stores is the original with only z, only y or only x
\* negated.
C6_MirrorNegatesOneCoordinate ==
    /\ call = "wing_inertia" =>
          \A k \in 1..Len(cloud) :
              cloudTag[k].mirror =>
                  OnlyNegated(cloud[cloudTag[k].src], cloud[k],
                              FlippedAxis(wing_sym[cloudTag[k].comp]))
    /\ (call = "geom_eval" /\ c_next) =>
          \A r \in 1..Len(wing_center_seg_point) :
              OnlyNegated(wing_center_seg_point[r][i - 1],
                          wing_center_seg_point[r][i],
                          FlippedAxis(wing_sym[i - a]))

C6_Witness_CentrePointMirrored ==
    /\ call = "geom_eval" /\ c_next
    /\ wing_sym[i - a] = 2
    /\ wing_center_seg_point[1][i - 1][2] > 0
    /\ wing_center_seg_point[1][i][2] < 0

\* The wings whose loop body is over.
WingsDone == IF pc = "return" THEN 1..w ELSE 1..(w - 1)

NodesOf(comp, seg) ==
    Cardinality({k \in 1..Len(cloudTag) :
                    cloudTag[k].comp = comp /\ cloudTag[k].seg = seg})

\* C7: for a wing with wing_sym = 0, wing_inertia appends no mirrored node:
\* the cloud holds for each of its segments the (subd_l+1) * 2*(subd_c+2)
\* nodes asked of the oracle and nothing else, and the offset a counts only
\* the symmetric wings.
C7_NoMirrorWithoutSymmetry ==
    call = "wing_inertia" =>
        /\ \A k \in 1..Len(cloudTag) :
              wing_sym[cloudTag[k].comp] = 0 =>
                 /\ ~cloudTag[k].mirror
                 /\ NodesOf(cloudTag[k].comp, cloudTag[k].seg)
                      = (WingSubdL(seg_length[<<cloudTag[k].seg,
                                                cloudTag[k].col - fuse>>],
                                   SPACING) + 1) * 2 * (subd_c + 2)
        /\ a = Cardinality({k \in WingsDone : wing_sym[k] # 0})

C7_Witness_PlainWingAfterSymmetricWing ==
    /\ call = "wing_inertia" /\ pc = "return"
    /\ w_nb = 2 /\ wing_sym[1] = 0 /\ wing_sym[2] # 0
    /\ a = 1
    /\ \E k \in 1..Len(cloudTag) : cloudTag[k].comp = 1

\* The two axes of the off-diagonal entries Ixy, Iyz, Ixz (entries 4, 5, 6).
EntryAxes(e) == CASE e = 4 -> {1, 2} [] e = 5 -> {2, 3} [] e = 6 -> {1, 3}

\* What the mirrored node k and the node it mirrors add to the tensor.
MirroredAdds(k) ==
    MirrorLumpedInertia(cloudTag[k].m, Offset(cloud[k], center_of_gravity))
SampledAdds(k) ==
    WingLumpedInertia(cloudTag[cloudTag[k].src].m,
                      Offset(cloud[cloudTag[k].src], center_of_gravity))

SignsFollowPlane(k) ==
    /\ \A e \in 1..3 : MirroredAdds(k)[e] >= 0
    /\ \A e \in 4..6 :
          MirroredAdds(k)[e] =
              IF FlippedAxis(wing_sym[cloudTag[k].comp]) \in EntryAxes(e)
              THEN 0 - SampledAdds(k)[e] ELSE SampledAdds(k)[e]

\* C8 as stated: for any centre of gravity, what a mirrored node adds to Ixx,
\* Iyy, Izz is not negative, and what it adds to Ixy, Iyz, Ixz is what the
\* original node adds, with the sign inverted for exactly the two entries
\* that involve the flipped coordinate.
C8_MirroredSignsForAnyCoG ==
    call = "wing_inertia" =>
        \A k \in 1..Len(cloud) : cloudTag[k].mirror => SignsFollowPlane(k)

\* C8 amended: the same when the centre of gravity lies in the mirror plane
\* (its coordinate along the flipped axis is 0).
C8_MirroredSignsForCoGInPlane ==
    call = "wing_inertia" =>
        \A k \in 1..Len(cloud) :
            (/\ cloudTag[k].mirror
             /\ center_of_gravity[FlippedAxis(wing_sym[cloudTag[k].comp])] = 0)
                => SignsFollowPlane(k)

C8_Witness_SignInvertedInPlane ==
    /\ call = "wing_inertia"
    /\ \E k \in 1..Len(cloud) :
          /\ cloudTag[k].mirror
          /\ wing_sym[cloudTag[k].comp] = 2
          /\ center_of_gravity[2] = 0
          /\ SampledAdds(k)[4] # 0 /\ MirroredAdds(k)[4] = 0 - SampledAdds(k)[4]
          /\ SampledAdds(k)[6] # 0 /\ MirroredAdds(k)[6] = SampledAdds(k)[6]

\* -------------------------------------------------------------------------
\* Properties of check_segment_connection
\* -------------------------------------------------------------------------
InTopo == call = "check_segment_connection"

\* The chaining loop of wing i has run to its end.
WingChained == pc = "return" \/ (pc = "chain" /\ j > wing_seg_nb[i])

\* Wing i's root has been chosen.
RootChosen == pc \in {"chain", "ValueError", "return"}

\* The n segments of `wing` form one connected chain without a cycle: in some
\* order each ends where the next starts and no section is met twice.
IsChain(ss, wing, n) ==
    \E p \in Perms(n) :
        /\ \A k \in 1..(n - 1) : ss[p[k]][wing][2] = ss[p[k + 1]][wing][1]
        /\ Cardinality({ss[p[1]][wing][1]} \cup {ss[k][wing][2] : k \in 1..n}) = n + 1

\* Every segment of wing i runs outward: its outer section lies strictly
\* further along the ranking axis than its inner section.
SpanIncreasing ==
    LET horiz == RankAlongY(wing_plt_area, wing_plt_area_xz, wing_plt_area_yz)
    IN  \A k \in 1..wing_seg_nb[i] :
            RankCoord(secPoint[seg_sec[k][i][2]], horiz)
                > RankCoord(secPoint[seg_sec[k][i][1]], horiz)

\* Row k of the reordered chain of `wing` links to row k+1, and every segment
\* appears once.
Linked(ssr, wing, n) ==
    /\ \A k \in 1..(n - 1) : ssr[k][wing][2] = ssr[k + 1][wing][1]
    /\ {ssr[k][wing][3] : k \in 1..n} = 1..n

\* C1 (as claimed): a wing whose segments form one connected acyclic chain,
\* running outward, is reordered whatever the numbering of its segments: the
\* call does not fail and the reordered chain holds every segment once, each
\* ending where the next starts.
C1_ChainReorderedForAnyNumbering ==
    (InTopo /\ RootChosen /\ IsChain(seg_sec, i, wing_seg_nb[i]) /\ SpanIncreasing)
        => /\ pc # "ValueError"
           /\ (WingChained => Linked(seg_sec_reordered, i, wing_seg_nb[i]))

\* C2 (as claimed): the segment placed at position 0 of the reordered chain is
\* the one whose start section has the lowest chord point of the wing along the
\* ranking axis, whatever the numbering of the segments.
C2_RootHasLowestStartSection ==
    (InTopo /\ RootChosen /\ IsChain(seg_sec, i, wing_seg_nb[i]) /\ SpanIncreasing)
        => LET horiz == RankAlongY(wing_plt_area, wing_plt_area_xz, wing_plt_area_yz)
               used == UsedSections([k \in 1..wing_seg_nb[i] |-> seg_sec[k][i]])
           IN  \A s \in used :
                   RankCoord(secPoint[seg_sec_reordered[1][i][1]], horiz)
                       <= RankCoord(secPoint[s], horiz)

\* Position k of wing `wing` has been filled by the chaining loop.
Placed(wing, k) ==
    \/ wing < i
    \/ wing = i /\ pc = "return"
    \/ wing = i /\ pc \in {"chain", "ValueError"} /\ k < j

\* C9: a position of the reordered chain is filled only when exactly one
\* segment starts at the end section of the position before it, and then with
\* that segment; when none or several do, the call ends in an error, the
\* position stays unfilled and the wing's chain is never returned.
C9_NoUniqueSuccessorFails ==
    InTopo =>
        /\ \A wing \in 1..w_nb : \A k \in 2..wing_seg_nb[wing] :
              Placed(wing, k) =>
                LET m == StartNext(seg_sec, wing, seg_sec_reordered[k - 1][wing][2])
                IN  /\ Cardinality(m) = 1
                    /\ \A r \in m : seg_sec_reordered[k][wing] = seg_sec[r][wing]
        /\ (pc = "ValueError" =>
              /\ Cardinality(StartNext(seg_sec, i, seg_sec_reordered[j - 1][i][2])) # 1
              /\ seg_sec_reordered[j][i] = ZeroRow
              /\ Len(sec_nb) < i)

\* C9 witness: the call has failed where two or more segments start at the end
\* section of the segment placed before.
C9_Witness_SeveralSuccessors ==
    /\ InTopo
    /\ pc = "ValueError"
    /\ Cardinality(StartNext(seg_sec, i, seg_sec_reordered[j - 1][i][2])) >= 2

\* C10 (as claimed): the chaining of a wing runs to its end only when the chain
\* revisits nothing: its sections are all different and so are its segments.
C10_CompletedChainRevisitsNothing ==
    (InTopo /\ WingChained)
        => LET n == wing_seg_nb[i]
           IN  /\ Cardinality({seg_sec_reordered[1][i][1]}
                       \cup {seg_sec_reordered[k][i][2] : k \in 1..n}) = n + 1
               /\ Cardinality({seg_sec_reordered[k][i][3] : k \in 1..n}) = n

\* The sections of the reordered chain of `wing`, in chain order.
ChainSections(ssr, wing, n) ==
    [k \in 1..(n + 1) |-> IF k = 1 THEN ssr[1][wing][1] ELSE ssr[k - 1][wing][2]]

\* The reordered chain of `wing` is a valid one: linked, every segment once,
\* no section met twice.
ValidChain(ssr, wing, n) ==
    /\ Linked(ssr, wing, n)
    /\ Cardinality({ChainSections(ssr, wing, n)[k] : k \in 1..(n + 1)}) = n + 1

\* C11 (as claimed): for every wing whose section list has been collected and
\* whose reordered chain is valid, its column of sec_index lists the sections
\* of its chain in chain order, from the start section of its own root segment
\* to the end section of its last segment, and sec_nb counts them (segment
\* count + 1).
C11_SecIndexListsOwnChain ==
    InTopo =>
        \A wing \in 1..Len(sec_nb) :
            ValidChain(seg_sec_reordered, wing, wing_seg_nb[wing]) =>
                /\ sec_nb[wing] = wing_seg_nb[wing] + 1
                /\ \A k \in 1..(wing_seg_nb[wing] + 1) :
                      sec_index[k][wing]
                          = ChainSections(seg_sec_reordered, wing, wing_seg_nb[wing])[k]

\* The segments of `wing` are numbered in chain order: segment k ends where
\* segment k+1 starts, and no section is met twice.
InChainOrder(ss, wing, n) ==
    /\ \A k \in 1..(n - 1) : ss[k][wing][2] = ss[k + 1][wing][1]
    /\ Cardinality({ss[1][wing][1]} \cup {ss[k][wing][2] : k \in 1..n}) = n + 1

\* C12 (as claimed): a wing whose segments are already numbered in chain order
\* is returned in the same order, wherever its sections lie (a span running
\* toward decreasing y or z included): the call does not fail and every
\* position k of the reordered chain holds segment k, so that a second run on
\* the result meets the same input and returns the same chain.
C12_OrderedChainIsKept ==
    (InTopo /\ RootChosen /\ InChainOrder(seg_sec, i, wing_seg_nb[i]))
        => /\ pc # "ValueError"
           /\ seg_sec_reordered[1][i] = seg_sec[1][i]
           /\ (WingChained =>
                 \A k \in 1..wing_seg_nb[i] : seg_sec_reordered[k][i] = seg_sec[k][i])

\* -------------------------------------------------------------------------
\* Properties of the sampling
\* -------------------------------------------------------------------------
\* ceil(len / sp), at least 1: the least count n >= 1 with n * sp >= len.
ClampedCeil(len, sp) ==
    CHOOSE n \in 1..(len + 1) :
        /\ n * sp >= len
        /\ (n > 1 => (n - 1) * sp < len)

\* The node p is in the cloud among the nodes of the segment last sampled.
SampledAt(p) ==
    \E k \in 1..Len(cloud) :
        /\ cloudTag[k].comp = subd.comp /\ cloudTag[k].seg = subd.seg
        /\ ~cloudTag[k].mirror
        /\ cloud[k] = p

\* C13: for every segment length >= 0 and SPACING > 0 the subdivision counts
\* used for sampling (subd_l, SUBD_C0, subd_r in fuselage_inertia, subd_l in
\* wing_inertia) are ceil(length / SPACING) clamped to at least 1, so that no
\* step 1/count divides by zero, and both ends of the segment (parameter 0 and
\* parameter 1) are sampled.
C13_SubdivisionsClampedCeil ==
    /\ (call = "wing_inertia" /\ subd # <<>>) =>
          /\ subd.l = ClampedCeil(seg_length[subd.key], SPACING)
          /\ subd.l >= 1
          /\ SampledAt(wingGetLowerPoint(chordFlip, subd.comp, subd.seg, 0, 1, 0, 1))
          /\ SampledAt(wingGetLowerPoint(chordFlip, subd.comp, subd.seg, 1, 1, 0, 1))
    /\ (call = "fuselage_inertia" /\ subd # <<>>) =>
          /\ subd.l = ClampedCeil(seg_length[subd.key][1], SPACING)
          /\ subd.c0 = ClampedCeil(seg_length[subd.key][2], SPACING)
          /\ subd.r = ClampedCeil(seg_length[subd.key][3], 2 * SPACING)
          /\ subd.l >= 1 /\ subd.c0 >= 1 /\ subd.r >= 1
          /\ SampledAt(fuselageGetPoint(subd.comp, subd.seg, 0, 1, 0, 1))
          /\ SampledAt(fuselageGetPoint(subd.comp, subd.seg, 1, 1, 0, 1))
          /\ SampledAt(fuselageGetPoint(subd.comp, subd.seg, 0, 1, 1, 1))

C13_Witness_ZeroLengthSampled ==
    /\ call = "fuselage_inertia" /\ pc = "return"
    /\ subd # <<>>
    /\ seg_length[subd.key] = <<0, 0, 0>>
    /\ subd.l = 1 /\ subd.c0 = 1 /\ subd.r = 1
    /\ NodesOf(subd.comp, subd.seg) >= 4

\* -------------------------------------------------------------------------
\* Properties of the diagonal of the tensor
\* -------------------------------------------------------------------------
InAnyInertia == call \in {"fuselage_inertia", "wing_inertia", "engine_inertia"}

MassesNonNegative ==
    /\ InLumped => \A k \in 1..Len(cloudTag) : cloudTag[k].m >= 0
    /\ call = "engine_inertia" => en_mass >= 0

\* C16: with masses that are not negative, the diagonal entries Ixx, Iyy and
\* Izz accumulated by fuselage_inertia, wing_inertia and engine_inertia are
\* never negative, for every centre of gravity and every symmetry code.
C16_DiagonalNeverNegative ==
    (InAnyInertia /\ MassesNonNegative) => (Ixx >= 0 /\ Iyy >= 0 /\ Izz >= 0)

C16_Witness_FuselagePositiveDiagonal ==
    /\ call = "fuselage_inertia" /\ pc = "return"
    /\ center_of_gravity # <<0, 0, 0>>
    /\ Ixx > 0 /\ Iyy > 0 /\ Izz > 0

\* The sum of m * (dx^2 + dy^2 + dz^2) over nodes lo..hi of the cloud.
PolarSumRange(lo, hi) ==
    IF lo > hi THEN 0
    ELSE IF lo = hi
    THEN LET d == Offset(cloud[lo], center_of_gravity)
         IN  cloudTag[lo].m * (d[1] * d[1] + d[2] * d[2] + d[3] * d[3])
    ELSE PolarSumRange(lo, (lo + hi) \div 2)
            + PolarSumRange((lo + hi) \div 2 + 1, hi)

\* The same sum over the first k engines.
EnginePolarSum(k) ==
    IF k = 0 THEN 0
    ELSE LET d == Offset(EN_PLACEMENT[k], center_of_gravity)
         IN  en_mass * (d[1] * d[1] + d[2] * d[2] + d[3] * d[3])
                + EnginePolarSum(k - 1)

\* C17: in fuselage_inertia, wing_inertia and engine_inertia the trace
\* Ixx + Iyy + Izz is twice the sum, over the lumped masses added so far, of
\* mass times squared distance to the centre of gravity.
C17_TraceIsTwicePolarSum ==
    /\ InLumped => Ixx + Iyy + Izz = 2 * PolarSumRange(1, Len(cloud))
    /\ call = "engine_inertia" =>
          Ixx + Iyy + Izz = 2 * EnginePolarSum(Len(EN_PLACEMENT))

C17_Witness_EnginesOffAllAxes ==
    /\ call = "engine_inertia" /\ pc = "return"
    /\ NE >= 2 /\ en_mass > 0
    /\ \E k \in 1..NE :
          LET d == Offset(EN_PLACEMENT[k], center_of_gravity)
          IN  d[1] # 0 /\ d[2] # 0 /\ d[3] # 0

\* -------------------------------------------------------------------------
\* Properties of failures and of the oracle handle
\* -------------------------------------------------------------------------
InOracleCall == call \in {"fuselage_inertia", "wing_inertia", "geom_eval"}

\* Every segment of every component has been processed.
AllProcessed ==
    /\ call = "wing_inertia" =>
          \A wing \in 1..w_nb : \A seg \in 1..wing_seg_nb[wing] :
              NodesOf(wing, seg) > 0
    /\ call = "fuselage_inertia" =>
          \A f \in 1..f_nb : \A r \in 1..Len(w_seg_sec) :
              w_seg_sec[r][f][3] # 0 /\ NodesOf(f, w_seg_sec[r][f][3]) > 0
    /\ call = "geom_eval" =>
          /\ Len(wing_sym) = w_nb /\ Len(wing_span) = w_nb
          /\ Len(tail_wings_surface) >= w_nb - 1
          /\ i > wing_nb

\* C14: when an oracle query raises during fuselage_inertia, wing_inertia or
\* geom_eval, the call is over at once: nothing is retried and no further
\* segment is processed (no step leaves a state in which the exception has
\* been raised), and a cloud and a tensor are returned only by a call in which
\* every segment of every component was processed.
C14_OracleFailureIsFatal ==
    /\ []((InOracleCall /\ pc = "return") => AllProcessed)
    /\ [][pc # "TiglException"]_vars

C14_Witness_FailedAfterFirstSegment ==
    /\ call = "wing_inertia" /\ pc = "TiglException"
    /\ Len(cloud) > 0
    /\ ~AllProcessed

\* C15 (as claimed): when a call of geom_eval, fuselage_inertia or wing_inertia
\* is over, by return or by an exception, the tixi/tigl handle it opened is
\* open no more.
C15_HandleReleasedWhenCallEnds ==
    (InOracleCall /\ pc \in {"return", "TiglException", "ValueError", "IndexError"})
        => tixi_handle # "open"

\* -------------------------------------------------------------------------
\* Properties of the segment lengths and of the mirrored columns
\* -------------------------------------------------------------------------
AfterLength == call = "geom_eval" /\ pc \in {"wetted", "centre", "return"}

\* C18: the length that getwingsegmentlength stores for a segment is the one
\* obtained with the two section centre points exchanged, and is never
\* negative.
C18_LengthSymmetricNonNegative ==
    AfterLength =>
        \A wing \in 1..w_nb : \A rr \in 1..wing_seg_nb[wing] :
            /\ seg_length[rr][OwnColumn(wing_sym, wing)]
                  = Distance(wing_center_section_point[rr + 1][wing],
                             wing_center_section_point[rr][wing])
            /\ seg_length[rr][OwnColumn(wing_sym, wing)] >= 0

C18_Witness_PositiveLengthStored ==
    /\ AfterLength
    /\ \E wing \in 1..w_nb : \E rr \in 1..wing_seg_nb[wing] :
          /\ wing_center_section_point[rr][wing]
                # wing_center_section_point[rr + 1][wing]
          /\ seg_length[rr][OwnColumn(wing_sym, wing)] > 0

\* C19: the geometry of a mirrored wing comes from stored values only:
\* getwingsegmentlength gives the mirrored column the lengths of the original
\* column, the centre loop of geom_eval fills the mirrored column from the
\* original column with the coordinate across the symmetry plane negated, and
\* neither of the two makes an oracle query.
C19_MirroredColumnsFromStoredValues ==
    /\ [](AfterLength =>
            \A wing \in 1..w_nb : wing_sym[wing] # 0 =>
                \A rr \in 1..Len(seg_length) :
                    seg_length[rr][OwnColumn(wing_sym, wing) + 1]
                        = seg_length[rr][OwnColumn(wing_sym, wing)])
    /\ []((call = "geom_eval" /\ pc = "return") =>
            \A wing \in 1..w_nb : wing_sym[wing] # 0 =>
                \A r \in 1..Len(wing_center_seg_point) :
                    wing_center_seg_point[r][OwnColumn(wing_sym, wing) + 1]
                        = MirrorSegPoint(
                              wing_center_seg_point[r][OwnColumn(wing_sym, wing)],
                              SegPointSymSigns(wing_sym[wing])))
    /\ [][(call = "geom_eval" /\ pc \in {"length", "centre"})
            => geom_queries' = geom_queries]_vars

C19_Witness_MirroredColumnsFilled ==
    /\ call = "geom_eval" /\ pc = "return"
    /\ \E wing \in 1..w_nb :
          /\ wing_sym[wing] # 0
          /\ seg_length[1][OwnColumn(wing_sym, wing) + 1] > 0
          /\ wing_center_seg_point[1][OwnColumn(wing_sym, wing) + 1]
                # wing_center_seg_point[1][OwnColumn(wing_sym, wing)]
          /\ geom_queries > 0

\* -------------------------------------------------------------------------
\* Properties of the number of nodes
\* -------------------------------------------------------------------------
\* The nodes sampled on the segment that wing_inertia processed last, their
\* mirror images left out.
SampledOnLast ==
    {k \in 1..Len(cloudTag) :
        /\ cloudTag[k].comp = subd.comp
        /\ cloudTag[k].seg = subd.seg
        /\ ~cloudTag[k].mirror}

\* C20 (as claimed): wing_inertia places subd_c * 2 points per sampled
\* spanwise station, so a segment of subd_l spanwise subdivisions contributes
\* (subd_l + 1) * subd_c * 2 points before mirroring.
C20_PointsPerSegment ==
    (call = "wing_inertia" /\ subd # <<>>)
        => Cardinality(SampledOnLast) = (subd.l + 1) * subd_c * 2

\* =========================================================================
\* CPACSInOut and check_cpacs_input_requirements      (moduleinterfaces.py)
\* =========================================================================
MaxEntries == 3

\* The CPACS paths an entry may name, and the default values: "None" is
\* Python's None, "0" any value that is not None.
Paths == {"/a", "/b"}
None == "None"
Defaults == {None, "0"}

\* The keyword arguments of a call: default_value may be left out.
Kwargs ==
    {kw \in [has_default : BOOLEAN, default_value : Defaults, cpacs_path : Paths] :
        ~kw.has_default => kw.default_value = None}

\* lines 40-55: _Entry(**kwargs); default_value is None when it is not given.
Entry(kw) ==
    [default_value |-> IF kw.has_default THEN kw.default_value ELSE None,
     cpacs_path |-> kw.cpacs_path]

NoCall == [op |-> "none", kw |-> <<>>, existing |-> {}]

InterfacesInit ==
    /\ call = "moduleinterfaces"
    /\ pc = "ready"
    /\ w_nb = 0 /\ wing_seg_nb = <<>>
    /\ TopoIdle /\ InertiaIdle /\ GeomIdle /\ tixi_handle = "none" /\ GuiIdle
    /\ inputs = <<>> /\ outputs = <<>>
    /\ io_call = NoCall /\ io_error = "none" /\ missing_nodes = <<>>

ifaceRest == <<call, pc, w_nb, wing_seg_nb, topoState, inertiaVars, geomVars, guiVars>>

\* lines 70-72
add_input ==
    /\ call = "moduleinterfaces"
    /\ Len(inputs) + Len(outputs) < MaxEntries
    /\ \E kw \in Kwargs :
          /\ inputs' = Append(inputs, Entry(kw))
          /\ io_call' = [op |-> "add_input", kw |-> kw, existing |-> {}]
    /\ io_error' = "none"
    /\ UNCHANGED <<outputs, missing_nodes, ifaceRest>>

\* lines 74-79: kwargs['default_value'] is read before anything else.
add_output ==
    /\ call = "moduleinterfaces"
    /\ Len(inputs) + Len(outputs) < MaxEntries
    /\ \E kw \in Kwargs :
          /\ io_call' = [op |-> "add_output", kw |-> kw, existing |-> {}]
          /\ IF ~kw.has_default
             THEN io_error' = "KeyError" /\ UNCHANGED outputs
             ELSE IF kw.default_value # None
             THEN io_error' = "ValueError" /\ UNCHANGED outputs
             ELSE /\ io_error' = "none"
                  /\ outputs' = Append(outputs, Entry(kw))
    /\ UNCHANGED <<inputs, missing_nodes, ifaceRest>>

\* lines 96-98: the test that puts an entry's path in missing_nodes.
MissingIgnoringDefault(entry, existing) == entry.cpacs_path \notin existing
Missing(entry, existing) ==
    entry.default_value = None /\ entry.cpacs_path \notin existing

\* lines 94-98: the loop over required_inputs.
RECURSIVE MissingNodes(_, _)
MissingNodes(required, existing) ==
    IF required = <<>> THEN <<>>
    ELSE (IF Missing(Head(required), existing)
          THEN <<Head(required).cpacs_path>> ELSE <<>>)
            \o MissingNodes(Tail(required), existing)

\* lines 86-110: existing are the paths for which tixi.checkElement is true.
check_cpacs_input_requirements ==
    /\ call = "moduleinterfaces"
    /\ \E existing \in SUBSET Paths :
          /\ io_call' = [op |-> "check", kw |-> <<>>, existing |-> existing]
          /\ missing_nodes' = MissingNodes(inputs, existing)
          /\ io_error' = IF MissingNodes(inputs, existing) # <<>>
                         THEN "CPACSRequirementError" ELSE "none"
    /\ UNCHANGED <<inputs, outputs, ifaceRest>>

InterfacesNext ==
    \/ add_input
    \/ add_output
    \/ check_cpacs_input_requirements

SpecInterfaces == InterfacesInit /\ [][InterfacesNext]_vars

\* -------------------------------------------------------------------------
\* Properties of CPACSInOut
\* -------------------------------------------------------------------------
\* C21 (as claimed): every entry of outputs has default_value None; an
\* add_output call given a default_value that is not None raises ValueError
\* and changes neither list; every other add_output call and every add_input
\* call appends exactly one entry to its own list and leaves the other list
\* unchanged.
C21_OutputsNeverHaveDefault ==
    /\ [](\A k \in 1..Len(outputs) : outputs[k].default_value = None)
    /\ [][io_call'.op = "add_output" /\ io_call'.kw.has_default
            /\ io_call'.kw.default_value # None
            => io_error' = "ValueError" /\ UNCHANGED <<inputs, outputs>>]_vars
    /\ [][io_call'.op = "add_output"
            /\ ~(io_call'.kw.has_default /\ io_call'.kw.default_value # None)
            => Len(outputs') = Len(outputs) + 1 /\ UNCHANGED inputs]_vars
    /\ [][io_call'.op = "add_input"
            => Len(inputs') = Len(inputs) + 1 /\ UNCHANGED outputs]_vars

\* The last call was check_cpacs_input_requirements.
CheckDone == call = "moduleinterfaces" /\ io_call.op = "check"

\* Entry k of inputs has no default and its path is not in the file checked.
IsMissingEntry(k) ==
    /\ inputs[k].default_value = None
    /\ inputs[k].cpacs_path \notin io_call.existing

\* How many of the first k entries of inputs are missing.
Rank(k) == Cardinality({m \in 1..k : IsMissingEntry(m)})

\* C22 (amended): check_cpacs_input_requirements raises CPACSRequirementError
\* exactly when some entry of inputs without default names a path that does
\* not exist; the message lists the path of every such entry, once for each
\* such entry, in the order of inputs, and nothing else; when nothing is
\* missing the call returns without error.
C22_MessageListsMissingEntries ==
    CheckDone =>
        /\ io_error = (IF \E k \in 1..Len(inputs) : IsMissingEntry(k)
                       THEN "CPACSRequirementError" ELSE "none")
        /\ Len(missing_nodes) = Rank(Len(inputs))
        /\ \A k \in 1..Len(inputs) :
              IsMissingEntry(k) => missing_nodes[Rank(k)] = inputs[k].cpacs_path

\* C22 (as claimed): moreover every missing path is listed exactly once.
C22_EveryMissingPathOnce ==
    CheckDone =>
        /\ C22_MessageListsMissingEntries
        /\ \A k \in 1..Len(inputs) :
              IsMissingEntry(k) =>
                Cardinality({q \in 1..Len(missing_nodes) :
                               missing_nodes[q] = inputs[k].cpacs_path}) = 1

C22_Witness_TwoMissingOneDefaulted ==
    /\ CheckDone
    /\ io_error = "CPACSRequirementError"
    /\ Len(missing_nodes) = 2 /\ missing_nodes[1] # missing_nodes[2]
    /\ \E k \in 1..Len(inputs) :
          inputs[k].default_value # None
            /\ inputs[k].cpacs_path \notin io_call.existing

\* -------------------------------------------------------------------------
\* Properties of geom_eval
\* -------------------------------------------------------------------------
\* The centre of section s of `wing` according to the oracle: the root section
\* is the inner section of the segment that comes first in the chain.
OracleCentre(wing, s) ==
    SectionCenter(wing_center_section_point[seg_sec[1][wing][3]][wing], s)

\* Segment number seg of `wing` has the length and the centre point that its
\* own start and end sections give.
OwnSectionsUsed(wing, seg) ==
    LET r == RowOfSegment(seg_sec, wing, seg)
        p == OracleCentre(wing, seg_sec[r][wing][1])
        q == OracleCentre(wing, seg_sec[r][wing][2])
    IN  /\ seg_length[seg][OwnColumn(wing_sym, wing)] = Distance(p, q)
        /\ pc = "return" =>
              wing_center_seg_point[seg][OwnColumn(wing_sym, wing)] = MidPoint(p, q)

\* C23 (as claimed): for every wing and every segment j, also when the
\* oracle's numbering of the segments is not in chain order, the length
\* stored for segment j is the distance between the centres of segment j's
\* own start and end sections, and wing_center_seg_point of segment j is the
\* midpoint of the same two centres.
C23_OwnSectionsForAnyNumbering ==
    AfterLength =>
        \A wing \in 1..w_nb : \A seg \in 1..wing_seg_nb[wing] :
            OwnSectionsUsed(wing, seg)

\* The factor of lines 214-217 by which the stored areas of `wing` were
\* multiplied.
Double(wing) == IF wing_sym[wing] # 0 THEN 2 ELSE 1

\* C24: a wing is ranked along y (horizontal) exactly when its xy reference
\* area is strictly greater than both its xz and its yz reference area, and
\* along z otherwise, ties included; the axis check_segment_connection
\* chooses for a wing from the arrays it is handed agrees with the is_horiz
\* value geom_eval records for the wing, and is_horiz has one entry per wing,
\* each mirrored wing counted.
C24_HorizontalIffXYStrictlyLargest ==
    call = "geom_eval" =>
        /\ Len(is_horiz)
              = Len(wing_sym) + Cardinality({k \in 1..Len(wing_sym) : wing_sym[k] # 0})
        /\ pc \notin {"count"} => Len(is_horiz) = wing_nb
        /\ \A wing \in 1..Len(wing_sym) :
              LET col == OwnColumn(wing_sym, wing)
                  axy == wing_plt_area[wing] \div Double(wing)
                  axz == wing_plt_area_xz[wing] \div Double(wing)
                  ayz == wing_plt_area_yz[wing] \div Double(wing)
              IN  /\ is_horiz[col] = (axy > axz /\ axy > ayz)
                  /\ is_horiz[col] = RankAlongY(wing_plt_area[wing],
                                                wing_plt_area_xz[wing],
                                                wing_plt_area_yz[wing])
                  /\ wing_sym[wing] # 0 => is_horiz[col + 1] = is_horiz[col]

C24_Witness_TiedSymmetricWingVertical ==
    /\ call = "geom_eval" /\ pc = "return"
    /\ \E wing \in 1..w_nb :
          /\ wing_sym[wing] # 0
          /\ wing_plt_area[wing] = wing_plt_area_xz[wing]
          /\ ~is_horiz[OwnColumn(wing_sym, wing)]
    /\ \E wing \in 1..w_nb : is_horiz[OwnColumn(wing_sym, wing)]

\* C25: the column w + a - 1 (here w + a, columns counted from 1) that
\* wing_inertia reads for wing w is the column getwingsegmentlength and the
\* centre loop of geom_eval write for the original wing w, the column after
\* it is the wing's mirror exactly when the wing is symmetric, and no
\* column lies beyond wing_nb.
C25_ColumnsAgreeAcrossFunctions ==
    /\ (call = "wing_inertia" /\ pc = "segment") =>
          /\ w + a = OwnColumn(wing_sym, w)
          /\ w + a + (IF wing_sym[w] # 0 THEN 1 ELSE 0) <= WingNb(wing_sym)
          /\ w < w_nb =>
                OwnColumn(wing_sym, w + 1)
                    = w + a + (IF wing_sym[w] # 0 THEN 2 ELSE 1)
    /\ (call = "wing_inertia" /\ subd # <<>>) =>
          subd.key[2] = OwnColumn(wing_sym, subd.comp)
    /\ (call = "geom_eval" /\ pc = "centre" /\ i <= wing_nb) =>
          /\ i - a \in 1..w_nb
          /\ IF c_next
             THEN wing_sym[i - a] # 0 /\ i = OwnColumn(wing_sym, i - a) + 1
             ELSE i = OwnColumn(wing_sym, i - a)
    /\ AfterLength =>
          \A wing \in 1..w_nb :
              OwnColumn(wing_sym, wing) + (IF wing_sym[wing] # 0 THEN 1 ELSE 0)
                  <= wing_nb

C25_Witness_WingAfterSymmetricWing ==
    /\ call = "wing_inertia" /\ subd # <<>>
    /\ subd.comp = 2 /\ wing_sym[1] # 0 /\ wing_sym[2] # 0
    /\ subd.key[2] = 3

\* -------------------------------------------------------------------------
\* Properties of the chordwise spacing
\* -------------------------------------------------------------------------
\* The distance, in units of zeta, of chord sample k of the last station from
\* the end taken as leading edge.
FromLeadingEdge(k) == IF subd.zle = 0 THEN subd.ze[k] ELSE DEN - subd.ze[k]

\* C26: in wing_inertia the denominator of the chordwise step is the sum of
\* the integers 1..(subd_c + 1); every chord parameter passed to the oracle
\* lies in [0, 1] whichever end is the leading edge, and successive
\* parameters lie at increasing distance from the leading edge, with growing
\* gaps.
C26_ChordParametersClusterAtLeadingEdge ==
    /\ (call = "wing_inertia" /\ pc = "segment") =>
          2 * DEN = (subd_c + 1) * (subd_c + 2)
    /\ (call = "wing_inertia" /\ subd # <<>>) =>
          /\ Len(subd.ze) = subd_c + 1
          /\ \A k \in 1..Len(subd.ze) : subd.ze[k] >= 0 /\ subd.ze[k] <= DEN
          /\ \A k \in 1..(Len(subd.ze) - 1) :
                FromLeadingEdge(k + 1) > FromLeadingEdge(k)
          /\ \A k \in 1..(Len(subd.ze) - 2) :
                FromLeadingEdge(k + 2) - FromLeadingEdge(k + 1)
                    > FromLeadingEdge(k + 1) - FromLeadingEdge(k)

C26_Witness_ThreeSamplesFromEndOne ==
    /\ call = "wing_inertia" /\ subd # <<>>
    /\ subd_c = 2 /\ subd.zle = 1
    /\ subd.ze = <<6, 5, 3>>

\* The wings other than the main wing, in increasing order: tail wing k is
\* wing k before the main wing and wing k + 1 from it on.
TailWing(k) == IF k < main_wing_index THEN k ELSE k + 1

\* s is what lines 328-330 count for `wing`: a surface the oracle reports,
\* twice for a symmetric wing.
CountedSurface(wing, s) == \E raw \in 1..MaxSurface : s = Double(wing) * raw

\* C30: after geom_eval on a fresh awg, wing_nb is w_nb plus the number of
\* symmetric wings; exactly one wing is the main wing, the first of those
\* with the largest span; every other wing appears once in
\* tail_wings_surface; a symmetric wing's surface is counted twice; and
\* total_wings_surface is main_wing_surface plus the sum of
\* tail_wings_surface.
C30_MainAndTailWingsAccounted ==
    (call = "geom_eval" /\ pc = "return") =>
        /\ wing_nb = w_nb + Cardinality({k \in 1..w_nb : wing_sym[k] # 0})
        /\ main_wing_index \in 1..w_nb
        /\ \A k \in 1..w_nb : wing_span[k] <= wing_span[main_wing_index]
        /\ \A k \in 1..(main_wing_index - 1) :
              wing_span[k] < wing_span[main_wing_index]
        /\ Len(tail_wings_surface) = w_nb - 1
        /\ CountedSurface(main_wing_index, main_wing_surface)
        /\ \A k \in 1..(w_nb - 1) :
              CountedSurface(TailWing(k), tail_wings_surface[k])
        /\ total_wings_surface = main_wing_surface + SeqSum(tail_wings_surface)

C30_Witness_TiedSpansFirstIsMain ==
    /\ call = "geom_eval" /\ pc = "return"
    /\ w_nb = 2 /\ wing_span[1] = wing_span[2]
    /\ main_wing_index = 1
    /\ wing_sym[1] = 0 /\ wing_sym[2] # 0
    /\ tail_wings_surface = <<2 * MaxSurface>>
    /\ total_wings_surface = main_wing_surface + 2 * MaxSurface

\* ---------------------------------------------------------------------------
\* settingsgui.py: the automatic tabs of the SettingGUI window.

MaxModules == 3
Modules == {"ModA", "ModB", "ModC"}

\* What lines 505-510 find for a module: no specs, specs with an empty GUI
\* dictionary, specs with settings to show.
SpecKinds == {"none", "empty", "gui"}

GuiRest == <<w_nb, wing_seg_nb, topoState, inertiaVars, geomVars, ifaceVars>>

\* lines 455-480: the window up to the first _update_all; the notebook holds
\* the tab of AeroMapTab only.
TabsInit ==
    /\ call = "SettingGUI"
    /\ pc = "init"
    /\ w_nb = 0 /\ wing_seg_nb = <<>>
    /\ TopoIdle /\ InertiaIdle /\ GeomIdle /\ tixi_handle = "none" /\ IfaceIdle
    /\ \E n \in 0..MaxModules : submodule_list \in [1..n -> Modules]
    /\ module_specs \in [Modules -> SpecKinds]
    /\ tab_list = <<>>
    /\ notebook = <<"AeroMaps">>
    /\ var_dict = <<>> /\ written = <<>>
    /\ saved = FALSE /\ gui_quit = FALSE /\ gui_error = "none"
    /\ aero_list = <<>> /\ listBox = <<>> /\ cpacs_aeromaps = <<>>
    /\ aero_entries = <<>>

\* tabs.forget(index): the notebook without its tab at position index,
\* counted from 0.
forget(nb, index) ==
    [k \in 1..(Len(nb) - 1) |-> IF k <= index THEN nb[k] ELSE nb[k + 1]]

\* lines 499-502: forget(1) once per AutoTab.
RECURSIVE ForgetTabs(_, _)
ForgetTabsOnce(nb, n) == IF n = 0 THEN nb ELSE forget(nb, 1)
ForgetTabs(nb, n) == IF n = 0 THEN nb ELSE ForgetTabs(forget(nb, 1), n - 1)

\* lines 505-512: the modules of the list that get an AutoTab.
HasTab(module_name) == module_specs[module_name] = "gui"

\* lines 496-515, called by the constructor (line 481) and by the Update
\* button.  AutoTab adds its tab to the notebook (line 286).
_update_all ==
    /\ call = "SettingGUI"
    /\ pc \in {"init", "mainloop"}
    /\ \E new \in {SelectSeq(submodule_list, HasTab)} :
          /\ notebook' = ForgetTabs(notebook, Len(tab_list)) \o new
          /\ tab_list' = new
    /\ pc' = "mainloop"
    /\ UNCHANGED <<call, submodule_list, module_specs, var_dict, written, saved,
                   gui_quit, gui_error, aero_list, listBox, cpacs_aeromaps,
                   aero_entries, GuiRest>>

TabsNext == _update_all

SpecTabs == TabsInit /\ [][TabsNext]_vars

MaxAeromaps == 2

\* The aeromap names, in the order list.sort() gives them.
Names == <<"a", "b", "c">>
NameRank(uid) == CHOOSE k \in 1..Len(Names) : Names[k] = uid
Before(u, v) == NameRank(u) < NameRank(v)

\* An entry text is the sequence of its pieces between ';', as split(";")
\* returns it: "", "1;", "1;2", "2;1" and "x".
EntryTexts == {<<"">>, <<"1", "">>, <<"1", "2">>, <<"2", "1">>, <<"x">>}

IsNumber(x) == x \in {"1", "2"}
\* float(x), defined where it returns
Float(x) == CASE x = "1" -> 1 [] x = "2" -> 2

NonEmpty(x) == x # ""
\* lines 184-187: the pieces kept by "if x"
Items(text) == SelectSeq(text, NonEmpty)
Converts(text) == \A k \in 1..Len(Items(text)) : IsNumber(Items(text)[k])
FloatList(text) == [k \in 1..Len(Items(text)) |-> Float(Items(text)[k])]

\* cpacs.get_aeromap_uid_list(): the uids in file order
get_aeromap_uid_list(aeromaps) == [k \in 1..Len(aeromaps) |-> aeromaps[k].uid]

\* lines 238-239 and 92
SortedUids(aeromaps) == SortSeq(get_aeromap_uid_list(aeromaps), Before)

SeqRange(s) == {s[k] : k \in 1..Len(s)}

\* lines 192-193: one row per position of the four lists.  zip pairs the
\* values of one position and add_row takes them by keyword.
ZipRowsCrossed(alts, machs, aoss, aoas) ==
    [k \in 1..Len(alts) |->
        [alt |-> alts[k], mach |-> machs[k], aoa |-> aoss[k], aos |-> aoas[k]]]
ZipRows(alts, machs, aoss, aoas) ==
    [k \in 1..Len(alts) |->
        [alt |-> alts[k], mach |-> machs[k], aoa |-> aoas[k], aos |-> aoss[k]]]

\* lines 62-174: the AeroMaps tab of a CPACS file with one aeromap, the
\* window in its main loop.
AeroMapInit ==
    /\ call = "AeroMapTab"
    /\ pc = "mainloop"
    /\ w_nb = 0 /\ wing_seg_nb = <<>>
    /\ TopoIdle /\ InertiaIdle /\ GeomIdle /\ tixi_handle = "none" /\ IfaceIdle
    /\ submodule_list = <<>> /\ module_specs = <<>>
    /\ tab_list = <<>> /\ notebook = <<"AeroMaps">>
    /\ var_dict = <<>> /\ written = <<>>
    /\ saved = FALSE /\ gui_quit = FALSE /\ gui_error = "none"
    /\ cpacs_aeromaps = <<[uid |-> "b",
                           rows |-> <<[alt |-> 1, mach |-> 1, aoa |-> 1, aos |-> 1]>>]>>
    /\ aero_list = SortedUids(cpacs_aeromaps)
    /\ listBox = aero_list
    /\ aero_entries = [aeromap_name |-> "a", alt |-> <<"1", "">>,
                       mach |-> <<"1", "">>, aos |-> <<"1", "">>,
                       aoa |-> <<"1", "">>]

aeroRest == <<call, pc, submodule_list, module_specs, tab_list, notebook,
              var_dict, written, saved, gui_quit, GuiRest>>

\* The user types in one of the five entries (lines 121-167).
EditEntry ==
    /\ call = "AeroMapTab"
    /\ \/ \E uid \in SeqRange(Names) :
             /\ uid # aero_entries.aeromap_name
             /\ aero_entries' = [aero_entries EXCEPT !.aeromap_name = uid]
       \/ \E f \in {"alt", "mach", "aos", "aoa"}, text \in EntryTexts :
             /\ text # aero_entries[f]
             /\ aero_entries' = [aero_entries EXCEPT ![f] = text]
    /\ gui_error' = "none"
    /\ UNCHANGED <<cpacs_aeromaps, aero_list, listBox, aeroRest>>

\* lines 176-200 with _update, lines 236-242.
_generate_aeromap ==
    /\ call = "AeroMapTab"
    /\ Len(cpacs_aeromaps) < MaxAeromaps
    /\ LET name == aero_entries.aeromap_name
           nothing == UNCHANGED <<cpacs_aeromaps, aero_list, listBox>>
       IN  IF name \in SeqRange(aero_list)
           THEN gui_error' = "warning" /\ nothing
           ELSE IF ~(/\ Converts(aero_entries.alt) /\ Converts(aero_entries.mach)
                     /\ Converts(aero_entries.aos) /\ Converts(aero_entries.aoa))
           THEN gui_error' = "ValueError" /\ nothing
           ELSE LET alt_list == FloatList(aero_entries.alt)
                    mach_list == FloatList(aero_entries.mach)
                    aos_list == FloatList(aero_entries.aos)
                    aoa_list == FloatList(aero_entries.aoa)
                IN  IF /\ Len(alt_list) = Len(mach_list)
                       /\ Len(mach_list) = Len(aoa_list)
                       /\ Len(aoa_list) = Len(aos_list)
                    THEN /\ cpacs_aeromaps' =
                              Append(cpacs_aeromaps,
                                     [uid |-> name,
                                      rows |-> ZipRows(alt_list, mach_list,
                                                       aos_list, aoa_list)])
                         /\ aero_list' = SortedUids(cpacs_aeromaps')
                         /\ listBox' = aero_list'
                         /\ gui_error' = "none"
                    ELSE gui_error' = "warning" /\ nothing
    /\ UNCHANGED <<aero_entries, aeroRest>>

AeroMapNext == EditEntry \/ _generate_aeromap

SpecAeroMap == AeroMapInit /\ [][AeroMapNext]_vars

\* The four lists of the entries have the same number of values.
SameLengths ==
    /\ Len(Items(aero_entries.alt)) = Len(Items(aero_entries.mach))
    /\ Len(Items(aero_entries.mach)) = Len(Items(aero_entries.aoa))
    /\ Len(Items(aero_entries.aoa)) = Len(Items(aero_entries.aos))

\* The window after a completed _generate_aeromap that had to create the
\* aeromap of the entries.
Generated ==
    /\ Len(cpacs_aeromaps') = Len(cpacs_aeromaps) + 1
    /\ SubSeq(cpacs_aeromaps', 1, Len(cpacs_aeromaps)) = cpacs_aeromaps
    /\ LET new == cpacs_aeromaps'[Len(cpacs_aeromaps')]
       IN  /\ new.uid = aero_entries.aeromap_name
           /\ Len(new.rows) = Len(Items(aero_entries.alt))
           /\ \A k \in 1..Len(new.rows) :
                 /\ new.rows[k].alt = Float(Items(aero_entries.alt)[k])
                 /\ new.rows[k].mach = Float(Items(aero_entries.mach)[k])
                 /\ new.rows[k].aos = Float(Items(aero_entries.aos)[k])
                 /\ new.rows[k].aoa = Float(Items(aero_entries.aoa)[k])
    /\ listBox' = SortedUids(cpacs_aeromaps')
    /\ aero_entries.aeromap_name \in SeqRange(listBox')

\* C28: _generate_aeromap creates nothing and leaves the list and the list
\* box unchanged when the name is already in the list or the four lists
\* differ in length; otherwise it creates exactly one aeromap with one row
\* per position, pairing the values of the same position, and the list box
\* then shows the sorted uid list with the new name.
C28_GenerateCreatesOneAeromapOrNothing ==
    [][(call = "AeroMapTab" /\ aero_entries' = aero_entries) =>
          IF aero_entries.aeromap_name \in SeqRange(aero_list) \/ ~SameLengths
          THEN UNCHANGED <<cpacs_aeromaps, aero_list, listBox>>
          ELSE Generated]_vars

\* Every value of the four entries is a number.
AllConvert ==
    /\ Converts(aero_entries.alt) /\ Converts(aero_entries.mach)
    /\ Converts(aero_entries.aos) /\ Converts(aero_entries.aoa)

\* C28, amended: _generate_aeromap creates nothing and leaves the list and
\* the list box unchanged when the name is already in the list, when the
\* four lists differ in length, or when a value is not a number (float then
\* raises ValueError); otherwise it creates exactly one aeromap with one row
\* per position, pairing the values of the same position, and the list box
\* then shows the sorted uid list with the new name.
C28_GenerateCreatesWhenValuesConvert ==
    [][(call = "AeroMapTab" /\ aero_entries' = aero_entries) =>
          IF aero_entries.aeromap_name \in SeqRange(aero_list) \/ ~SameLengths
          THEN UNCHANGED <<cpacs_aeromaps, aero_list, listBox>>
          ELSE IF AllConvert
          THEN Generated
          ELSE /\ UNCHANGED <<cpacs_aeromaps, aero_list, listBox>>
               /\ gui_error' = "ValueError"]_vars

C28_Witness_TwoRowsSortedBeforeOld ==
    /\ call = "AeroMapTab" /\ gui_error = "none"
    /\ aero_entries = [aeromap_name |-> "a", alt |-> <<"1", "2">>,
                       mach |-> <<"2", "1">>, aos |-> <<"1", "2">>,
                       aoa |-> <<"2", "1">>]
    /\ Len(cpacs_aeromaps) = 2
    /\ cpacs_aeromaps[2] =
          [uid |-> "a",
           rows |-> <<[alt |-> 1, mach |-> 2, aoa |-> 2, aos |-> 1],
                      [alt |-> 2, mach |-> 1, aoa |-> 1, aos |-> 2]>>]
    /\ aero_list = <<"a", "b">>
    /\ listBox = <<"a", "b">>

\* ---------------------------------------------------------------------------
\* settingsgui.py: the "Save & Quit" button.

MaxTabs == 2
MaxVars == 2

\* The variables of an AutoTab as _save_quit finds them.  The checkbox group
\* __AEROMAP_CHECHBOX is given by the uid string lines 531-534 build from it;
\* a "str" is a StringVar or a Combobox, a "float" an IntVar or a DoubleVar
\* behind an Entry.  "rejected" is a text updateTextElement refuses.
VarStates ==
    [dtype : {"aeromap_checkbox"}, value : {"", "uid;"}]
        \cup [dtype : {"str"}, value : {"", "text", "rejected"}]
        \cup [dtype : {"float"}, value : {"", "1.0"}]

VarDicts == UNION {[1..n -> VarStates] : n \in 1..MaxVars}

\* lines 455-494 and the user's typing: a window in its main loop, every
\* AutoTab with at least one variable (line 509).
SaveQuitInit ==
    /\ call = "SettingGUI"
    /\ pc = "save"
    /\ w_nb = 0 /\ wing_seg_nb = <<>>
    /\ TopoIdle /\ InertiaIdle /\ GeomIdle /\ tixi_handle = "none" /\ IfaceIdle
    /\ \E n \in 0..MaxTabs :
          /\ tab_list = SubSeq(<<"ModA", "ModB", "ModC">>, 1, n)
          /\ var_dict \in [1..n -> VarDicts]
    /\ submodule_list = tab_list
    /\ module_specs = [mod \in Modules |-> "gui"]
    /\ notebook = <<"AeroMaps">> \o tab_list
    /\ written = <<>>
    /\ saved = FALSE /\ gui_quit = FALSE /\ gui_error = "none"
    /\ aero_list = <<>> /\ listBox = <<>> /\ cpacs_aeromaps = <<>>
    /\ aero_entries = <<>>

\* lines 524-570 for one variable: "ok" when its value is written, else the
\* exception raised.  get() of an IntVar or a DoubleVar whose entry is empty
\* raises TclError inside the comparison of line 546.
VarOutcome(var) ==
    IF var.dtype = "aeromap_checkbox"
    THEN IF var.value = "" THEN "TypeError" ELSE "ok"
    ELSE IF var.dtype = "float" /\ var.value = "" THEN "TclError"
    ELSE IF var.value = "" THEN "TypeError"
    ELSE IF var.value = "rejected" THEN "TypeError"
    ELSE "ok"

\* lines 520-570: the two loops from variable k of tab t on; done holds the
\* variables written so far.
RECURSIVE SaveLoop(_, _, _)
SaveLoop(t, k, done) ==
    IF t > Len(tab_list) THEN [written |-> done, error |-> "none"]
    ELSE IF k > Len(var_dict[t]) THEN SaveLoop(t + 1, 1, done)
    ELSE LET outcome == VarOutcome(var_dict[t][k])
         IN  IF outcome = "ok"
             THEN SaveLoop(t, k + 1, Append(done, <<t, k>>))
             ELSE [written |-> done, error |-> outcome]

\* lines 517-574
_save_quit ==
    /\ call = "SettingGUI"
    /\ pc = "save"
    /\ ~gui_quit
    /\ \E r \in {SaveLoop(1, 1, <<>>)} :
          /\ written' = r.written
          /\ gui_error' = r.error
          /\ saved' = (r.error = "none")
          /\ gui_quit' = (r.error = "none")
    /\ pc' = "returned"
    /\ UNCHANGED <<call, submodule_list, module_specs, tab_list, notebook,
                   var_dict, aero_list, listBox, cpacs_aeromaps, aero_entries,
                   GuiRest>>

SaveQuitNext == _save_quit

SpecSaveQuit == SaveQuitInit /\ [][SaveQuitNext]_vars

\* The variables of all tabs in the order _save_quit visits them.
RECURSIVE VarsFrom(_)
VarsFrom(t) ==
    IF t > Len(tab_list) THEN <<>>
    ELSE [k \in 1..Len(var_dict[t]) |-> <<t, k>>] \o VarsFrom(t + 1)

\* An empty value, a rejected value, or a checkbox group with nothing
\* selected.
Unusable(v) == var_dict[v[1]][v[2]].value \in {"", "rejected"}

\* C29: _save_quit writes the output file and quits only after every variable
\* of every tab was found non-empty and written; on the first empty value,
\* rejected value or aeromap checkbox group with nothing selected it raises
\* TypeError, and then save_cpacs is never called, the GUI does not quit and
\* no later variable is written.
C29_SaveQuitAllOrTypeError ==
    (call = "SettingGUI" /\ pc = "returned") =>
        LET all == VarsFrom(1)
            bad == {n \in 1..Len(all) : Unusable(all[n])}
        IN  IF bad = {}
            THEN saved /\ gui_quit /\ written = all
            ELSE /\ gui_error = "TypeError"
                 /\ ~saved /\ ~gui_quit
                 /\ \E n \in bad :
                       /\ \A m \in bad : n <= m
                       /\ written = SubSeq(all, 1, n - 1)

====
